---- MODULE Spec2Model ----
(***************************************************************************)
(* audit-cli, report testable-code: the language resolver, the product     *)
(* classifier and the recursive inclusion walker of                        *)
(* commands/report/testable-code/csv_parser.go, with the language tables   *)
(* of internal/language and the content-directory table of                 *)
(* internal/projectinfo.                                                   *)
(***************************************************************************)
EXTENDS Integers, Sequences, FiniteSets, TLC

VARIABLES
    pc,       \* position of the operation under analysis
    arg,      \* inputs of the function call under analysis
    out,      \* value returned by that call
    fs,       \* file path -> content as read from disk (NotRead until opened)
    visited,  \* the visited map of collectCodeExamples (set of paths set to true)
    stack,    \* call stack of collectCodeExamplesWithContext, innermost frame last
    result,   \* (examples, err) returned to AnalyzePage by the top-level call
    tracker,  \* locals of parseContextBlocks and parseFileContexts scanning one file
    heap,     \* the ProductMappings objects, by reference
    snootyCache,  \* the snootyCache struct: its configs map and its RWMutex
    calls     \* goroutine -> its activation of MergeProjectComposables

vars == <<pc, arg, out, fs, visited, stack, result, tracker, heap, snootyCache, calls>>

walkVars == <<fs, visited, stack, result>>

trackerVars == <<tracker>>

mergeVars == <<heap, snootyCache, calls>>

None == "<none>"

Range(s) == {s[i] : i \in 1..Len(s)}

SeqsUpTo(S, n) == UNION {[1..k -> S] : k \in 0..n}

(***************************************************************************)
(* internal/language                                                       *)
(***************************************************************************)

\* strings.ToLower on the strings the model uses: the mixed-case spellings
\* fold to their lower-case form, every other string is already lower-case.
ToLower(s) ==
    CASE s = "Python" -> "python"
      [] s = "JSON" -> "json"
      [] s = "Shell" -> "shell"
      [] s = " SH " -> " sh "
      [] s = ".YML" -> ".yml"
      [] OTHER -> s

\* strings.TrimSpace on the strings the model uses.
TrimSpace(s) ==
    CASE s = " sh " -> "sh"
      [] s = " SH " -> "SH"
      [] s = " go " -> "go"
      [] OTHER -> s

LowerTrim(s) == ToLower(TrimSpace(s))

Undefined == "undefined"

extensionMap ==
    ".py" :> "python" @@ ".js" :> "javascript" @@ ".ts" :> "typescript" @@
    ".go" :> "go" @@ ".java" :> "java" @@ ".cs" :> "csharp" @@ ".cpp" :> "cpp" @@
    ".c" :> "c" @@ ".rb" :> "ruby" @@ ".rs" :> "rust" @@ ".swift" :> "swift" @@
    ".kt" :> "kotlin" @@ ".scala" :> "scala" @@ ".sh" :> "shell" @@
    ".bash" :> "shell" @@ ".ps1" :> "powershell" @@ ".json" :> "json" @@
    ".yaml" :> "yaml" @@ ".yml" :> "yaml" @@ ".xml" :> "xml" @@ ".html" :> "html" @@
    ".css" :> "css" @@ ".sql" :> "sql" @@ ".txt" :> "text" @@ ".php" :> "php"

\* filepath.Ext lower-cased, for the file paths the model uses.
Ext(filePath) ==
    CASE filePath = "/code/example.py" -> ".py"
      [] filePath = "/code/tested/example.js" -> ".js"
      [] filePath = "/code/run.sh" -> ".sh"
      [] filePath = "/code/out.JSON" -> ".json"
      [] filePath = "/code/file.xyz" -> ".xyz"
      [] OTHER -> ""

GetLanguageFromExtension(filePath) ==
    IF Ext(filePath) \in DOMAIN extensionMap THEN extensionMap[Ext(filePath)] ELSE ""

normalizeMap ==
    "bash" :> "bash" @@ "c" :> "c" @@ "cpp" :> "cpp" @@ "csharp" :> "csharp" @@
    "console" :> "console" @@ "css" :> "css" @@ "go" :> "go" @@ "html" :> "html" @@
    "java" :> "java" @@ "javascript" :> "javascript" @@ "json" :> "json" @@
    "kotlin" :> "kotlin" @@ "php" :> "php" @@ "powershell" :> "powershell" @@
    "ps5" :> "ps5" @@ "python" :> "python" @@ "ruby" :> "ruby" @@ "rust" :> "rust" @@
    "scala" :> "scala" @@ "shell" :> "shell" @@ "sql" :> "sql" @@ "swift" :> "swift" @@
    "text" :> "text" @@ "typescript" :> "typescript" @@ "xml" :> "xml" @@
    "yaml" :> "yaml" @@ "c++" :> "cpp" @@ "c#" :> "csharp" @@ "cs" :> "csharp" @@
    "golang" :> "go" @@ "js" :> "javascript" @@ "kt" :> "kotlin" @@ "py" :> "python" @@
    "rb" :> "ruby" @@ "rs" :> "rust" @@ "sh" :> "shell" @@ "ts" :> "typescript" @@
    "txt" :> "text" @@ "ps1" :> "powershell" @@ "yml" :> "yaml" @@
    "" :> Undefined @@ "none" :> Undefined

Normalize(language) ==
    IF LowerTrim(language) \in DOMAIN normalizeMap
    THEN normalizeMap[LowerTrim(language)]
    ELSE LowerTrim(language)

\* Resolve: argument, then :language: option, then file extension, then
\* "undefined"; the result is normalized.
Resolve(languageArg, languageOption, filePath) ==
    LET l1 == languageArg
        l2 == IF l1 = "" THEN languageOption ELSE l1
        l3 == IF l2 = "" /\ filePath # "" THEN GetLanguageFromExtension(filePath) ELSE l2
        l4 == IF l3 = "" THEN Undefined ELSE l3
    IN  Normalize(l4)

LanguageToProduct ==
    "python" :> "Python" @@ "javascript" :> "JavaScript" @@ "js" :> "JavaScript" @@
    "typescript" :> "TypeScript" @@ "ts" :> "TypeScript" @@ "go" :> "Go" @@
    "golang" :> "Go" @@ "java" :> "Java" @@ "csharp" :> "C#" @@ "c#" :> "C#" @@
    "cs" :> "C#" @@ "cpp" :> "C++" @@ "c++" :> "C++" @@ "c" :> "C" @@
    "ruby" :> "Ruby" @@ "rb" :> "Ruby" @@ "rust" :> "Rust" @@ "rs" :> "Rust" @@
    "swift" :> "Swift" @@ "kotlin" :> "Kotlin" @@ "kt" :> "Kotlin" @@
    "scala" :> "Scala" @@ "php" :> "PHP" @@ "mongosh" :> "MongoDB Shell" @@
    "bash" :> "Shell" @@ "sh" :> "Shell" @@ "shell" :> "Shell" @@
    "console" :> "Shell" @@ "powershell" :> "PowerShell" @@ "ps1" :> "PowerShell" @@
    "json" :> "JSON" @@ "yaml" :> "YAML" @@ "yml" :> "YAML" @@ "xml" :> "XML" @@
    "html" :> "HTML" @@ "css" :> "CSS" @@ "sql" :> "SQL" @@ "ini" :> "INI" @@
    "toml" :> "TOML" @@ "properties" :> "Properties" @@ "text" :> "Text" @@
    "txt" :> "Text" @@ "none" :> "Text"

\* GetProductFromLanguage with a default of "Unknown" for a language the table
\* does not list.
GetProductFromLanguage_defaultUnknown(lang) ==
    IF LowerTrim(lang) \in DOMAIN LanguageToProduct
    THEN LanguageToProduct[LowerTrim(lang)]
    ELSE "Unknown"

\* Returns the original string, not its lower-case form, when the table has
\* no entry.
GetProductFromLanguage(lang) ==
    IF LowerTrim(lang) \in DOMAIN LanguageToProduct
    THEN LanguageToProduct[LowerTrim(lang)]
    ELSE lang

NonDriverLanguages ==
    {"bash", "sh", "console", "text", "json", "yaml", "xml", "ini", "toml",
     "properties", "sql", "none", "http"}

IsNonDriverLanguage(language) == LowerTrim(language) \in NonDriverLanguages

MongoShellLanguages == {"shell", "javascript", "js"}

IsMongoShellLanguage(language) == LowerTrim(language) \in MongoShellLanguages

(***************************************************************************)
(* internal/projectinfo                                                    *)
(***************************************************************************)

ContentDirToProduct ==
    "c-driver" :> "C" @@ "cpp-driver" :> "C++" @@ "csharp" :> "C#" @@
    "golang" :> "Go" @@ "java" :> "Java (Sync)" @@
    "java-rs" :> "Java (Reactive Streams)" @@ "kotlin" :> "Kotlin (Coroutine)" @@
    "kotlin-sync" :> "Kotlin (Sync)" @@ "laravel-mongodb" :> "Laravel" @@
    "mongodb-shell" :> "MongoDB Shell" @@ "node" :> "Node.js" @@
    "php-library" :> "PHP" @@ "pymongo-arrow" :> "PyMongo Arrow" @@
    "pymongo-driver" :> "Python" @@ "ruby-driver" :> "Ruby" @@ "rust" :> "Rust" @@
    "scala-driver" :> "Scala" @@ "swift" :> "Swift"

GetProductFromContentDir(contentDir) ==
    IF contentDir \in DOMAIN ContentDirToProduct THEN ContentDirToProduct[contentDir] ELSE ""

(***************************************************************************)
(* commands/report/testable-code: classification                           *)
(***************************************************************************)

TestableProducts ==
    {"C#", "csharp", "Go", "go", "Java", "Java (Sync)", "java", "java-sync",
     "Node.js", "nodejs", "Python", "python", "MongoDB Shell", "mongosh"}

MaybeTestableProducts == {"JavaScript", "Shell"}

CodeContext(tabID, interface, language) ==
    [TabID |-> tabID, Composable |-> "", Interface |-> interface, Language |-> language]

EmptyContext == CodeContext("", "", "")

isTestable(product, contentDir) == product \in TestableProducts

\* isMaybeTestable that also takes the shell product for a grey-area product.
isMaybeTestable_withShellProduct(product) ==
    product \in MaybeTestableProducts \cup {"MongoDB Shell"}

isMaybeTestable(product) == product \in MaybeTestableProducts

\* isMongoShellContext that looks at the content directory only.
isMongoShellContext_dirOnly(contentDir, contexts) == contentDir = "mongodb-shell"

isMongoShellContext(contentDir, contexts) ==
    \/ contentDir = "mongodb-shell"
    \/ \E i \in 1..Len(contexts) : contexts[i].Interface = "mongosh"

NoHit == [hit |-> FALSE, product |-> ""]

\* contextProduct with the language selector tried before the tab ID.
contextProduct_languageFirst(ctx, mappings) ==
    IF ctx.Language # "" /\ ctx.Language \in DOMAIN mappings.ComposableLanguageToProduct
    THEN [hit |-> TRUE, product |-> mappings.ComposableLanguageToProduct[ctx.Language]]
    ELSE IF ctx.TabID # "" /\ ctx.TabID \in DOMAIN mappings.DriversTabIDToProduct
    THEN [hit |-> TRUE, product |-> mappings.DriversTabIDToProduct[ctx.TabID]]
    ELSE IF ctx.Interface # "" /\ ctx.Interface \in DOMAIN mappings.ComposableInterfaceToProduct
    THEN [hit |-> TRUE, product |-> mappings.ComposableInterfaceToProduct[ctx.Interface]]
    ELSE NoHit

\* One iteration of the context loop of determineProduct: tab ID, then
\* language selector, then interface selector.
contextProduct(ctx, mappings) ==
    IF ctx.TabID # "" /\ ctx.TabID \in DOMAIN mappings.DriversTabIDToProduct
    THEN [hit |-> TRUE, product |-> mappings.DriversTabIDToProduct[ctx.TabID]]
    ELSE IF ctx.Language # "" /\ ctx.Language \in DOMAIN mappings.ComposableLanguageToProduct
    THEN [hit |-> TRUE, product |-> mappings.ComposableLanguageToProduct[ctx.Language]]
    ELSE IF ctx.Interface # "" /\ ctx.Interface \in DOMAIN mappings.ComposableInterfaceToProduct
    THEN [hit |-> TRUE, product |-> mappings.ComposableInterfaceToProduct[ctx.Interface]]
    ELSE NoHit

\* The context loop of determineProduct: the first context, in order, that
\* has a mapping hit.
RECURSIVE contextsProduct(_, _)
contextsProduct(contexts, mappings) ==
    IF contexts = <<>> THEN NoHit
    ELSE IF contextProduct(Head(contexts), mappings).hit
         THEN contextProduct(Head(contexts), mappings)
         ELSE contextsProduct(Tail(contexts), mappings)

\* determineProduct without the non-driver bypass at its top.
determineProduct_noBypass(language, contentDir, contexts, mappings) ==
    IF language # "" /\ IsMongoShellLanguage(language)
       /\ isMongoShellContext(contentDir, contexts)
    THEN "MongoDB Shell"
    ELSE IF language # "" /\ IsMongoShellLanguage(language) /\ ToLower(language) = "shell"
    THEN "Shell"
    ELSE IF contextsProduct(contexts, mappings).hit
    THEN contextsProduct(contexts, mappings).product
    ELSE IF GetProductFromContentDir(contentDir) # ""
    THEN GetProductFromContentDir(contentDir)
    ELSE IF language # ""
    THEN GetProductFromLanguage(language)
    ELSE "Unknown"

determineProduct(language, contentDir, contexts, mappings) ==
    IF language # "" /\ IsNonDriverLanguage(language)
    THEN GetProductFromLanguage(language)
    ELSE IF language # "" /\ IsMongoShellLanguage(language)
            /\ isMongoShellContext(contentDir, contexts)
    THEN "MongoDB Shell"
    ELSE IF language # "" /\ IsMongoShellLanguage(language) /\ ToLower(language) = "shell"
    THEN "Shell"
    ELSE IF contextsProduct(contexts, mappings).hit
    THEN contextsProduct(contexts, mappings).product
    ELSE IF GetProductFromContentDir(contentDir) # ""
    THEN GetProductFromContentDir(contentDir)
    ELSE IF language # ""
    THEN GetProductFromLanguage(language)
    ELSE "Unknown"

\* The mappings of the package's tests (TestDetermineProduct).
TestMappings ==
    [DriversTabIDToProduct |->
        "python" :> "Python" @@ "nodejs" :> "Node.js" @@ "java-sync" :> "Java (Sync)",
     ComposableLanguageToProduct |->
        "python" :> "Python" @@ "nodejs" :> "Node.js" @@ "go" :> "Go",
     ComposableInterfaceToProduct |->
        "mongosh" :> "MongoDB Shell" @@ "driver" :> "Driver" @@ "compass" :> "Compass"]

(***************************************************************************)
(* Classification of one (language, contentDir, contexts) triple           *)
(***************************************************************************)

MaxContexts == 2

ClassifyLanguages ==
    {"", "python", "Python", "javascript", "js", "shell", "Shell", "sh", "bash",
     "json", "JSON", "http", "ruby", "undefined", "cobol"}

ClassifyContentDirs == {"", "manual", "mongodb-shell", "pymongo-driver"}

ClassifyContexts ==
    {CodeContext(t, i, l) : t \in {"", "nodejs", "go"}, i \in {"", "mongosh"},
                            l \in {"", "python", "kotlin"}}

ClassifyInputs ==
    [language : ClassifyLanguages, contentDir : ClassifyContentDirs,
     contexts : SeqsUpTo(ClassifyContexts, MaxContexts), mappings : {TestMappings}]

WalkIdle ==
    /\ fs = <<>>
    /\ visited = {}
    /\ stack = <<>>
    /\ result = None

TrackerIdle == tracker = None

MergeIdle ==
    /\ heap = <<>>
    /\ snootyCache = None
    /\ calls = <<>>

InitClassify ==
    /\ pc = "classify"
    /\ arg \in ClassifyInputs
    /\ out = None
    /\ WalkIdle
    /\ TrackerIdle
    /\ MergeIdle

\* determineProduct, isTestable and isMaybeTestable as processDirective
\* applies them to one example.
Classify ==
    /\ pc = "classify"
    /\ LET product == determineProduct(arg.language, arg.contentDir, arg.contexts, arg.mappings)
       IN  out' = [product |-> product,
                   isTestable |-> isTestable(product, arg.contentDir),
                   isMaybeTestable |-> isMaybeTestable(product)]
    /\ pc' = "classified"
    /\ UNCHANGED <<arg, fs, visited, stack, result>>
    /\ UNCHANGED <<trackerVars, mergeVars>>

NextClassify == Classify

SpecClassify == InitClassify /\ [][NextClassify]_vars

(***************************************************************************)
(* internal/rst directives and processDirective                            *)
(***************************************************************************)

LiteralInclude == "literalinclude"
CodeBlock == "code-block"
IoCodeBlock == "io-code-block"
YAMLCodeBlock == "yaml-code-block"

\* A nil *SubDirective.
NoSub == [nil |-> TRUE]

SubDirective(argument, languageOption) ==
    [nil |-> FALSE, Argument |-> argument, Options |-> [language |-> languageOption]]

\* Options holds the :language: option alone; "" stands for an absent key,
\* which every reader of the map treats like an empty value.
Directive(type, argument, languageOption, input, output, lineNum) ==
    [Type |-> type, Argument |-> argument, Options |-> [language |-> languageOption],
     InputDirective |-> input, OutputDirective |-> output, LineNum |-> lineNum]

\* Directive.ResolveLanguage: the argument of a code-block is a language, the
\* argument of a literalinclude is a file path.
DirectiveResolveLanguage(d) ==
    IF d.Type = CodeBlock THEN Resolve(d.Argument, d.Options.language, "")
    ELSE IF d.Type = LiteralInclude THEN Resolve("", d.Options.language, d.Argument)
    ELSE Resolve("", d.Options.language, "")

\* SubDirective.ResolveLanguage: its own :language: option, else the parent's,
\* else the extension of its file path.
SubDirectiveResolveLanguage(sub, parentOptions) ==
    Resolve("",
            IF sub.Options.language # "" THEN sub.Options.language ELSE parentOptions.language,
            sub.Argument)

\* getLanguage: the :language: option first, then defaultLang, then
\* "undefined"; nothing is normalized.
getLanguage(directive, defaultLang) ==
    IF directive.Options.language # "" THEN directive.Options.language
    ELSE IF defaultLang # "" THEN defaultLang
    ELSE Undefined

\* strings.Contains(path, "/tested/") on the paths the model uses.
isTestedPath(path) == path \in {"/code/tested/example.js"}

Example(type, language, isInput, isOutput, isTested, filePath, sourceFile, contentDir, contexts, mappings) ==
    LET product == determineProduct(language, contentDir, contexts, mappings)
    IN  [Type |-> type, Language |-> language, Product |-> product,
         IsInput |-> isInput, IsOutput |-> isOutput, IsTested |-> isTested,
         IsTestable |-> isTestable(product, contentDir),
         IsMaybeTestable |-> isMaybeTestable(product),
         FilePath |-> filePath, SourceFile |-> sourceFile]

processDirective(directive, sourceFile, contentDir, contexts, mappings) ==
    CASE directive.Type = LiteralInclude ->
            <<Example(LiteralInclude, DirectiveResolveLanguage(directive), FALSE, FALSE,
                      isTestedPath(directive.Argument), directive.Argument, sourceFile,
                      contentDir, contexts, mappings)>>
      [] directive.Type = CodeBlock ->
            <<Example(CodeBlock, getLanguage(directive, directive.Argument), FALSE, FALSE,
                      FALSE, "", sourceFile, contentDir, contexts, mappings)>>
      [] directive.Type = IoCodeBlock ->
            (IF directive.InputDirective.nil THEN <<>>
             ELSE <<Example(IoCodeBlock,
                            SubDirectiveResolveLanguage(directive.InputDirective,
                                                        directive.Options),
                            TRUE, FALSE, isTestedPath(directive.InputDirective.Argument),
                            directive.InputDirective.Argument, sourceFile,
                            contentDir, contexts, mappings)>>)
            \o
            (IF directive.OutputDirective.nil THEN <<>>
             ELSE <<Example(IoCodeBlock,
                            SubDirectiveResolveLanguage(directive.OutputDirective,
                                                        directive.Options),
                            FALSE, TRUE, isTestedPath(directive.OutputDirective.Argument),
                            directive.OutputDirective.Argument, sourceFile,
                            contentDir, contexts, mappings)>>)
      [] directive.Type = YAMLCodeBlock ->
            <<Example(YAMLCodeBlock, getLanguage(directive, directive.Argument), FALSE, FALSE,
                      FALSE, "", sourceFile, contentDir, contexts, mappings)>>
      [] OTHER -> <<>>

(***************************************************************************)
(* Conversion of one directive into examples                               *)
(***************************************************************************)

LanguageArguments == {"", "python", "ts", "JSON"}
LanguageOptions == {"", "javascript", "sh"}
FileArguments == {"/code/example.py", "/code/tested/example.js", "/code/file.xyz",
                  "/code/out.JSON", "/code/run.sh"}
SubDirectives ==
    {NoSub} \cup {SubDirective(a, l) : a \in {"", "/code/example.py"},
                                       l \in {"", "javascript"}}

\* What the parsers can hand to processDirective: a code-block carries a
\* language argument, a literalinclude a file path, an io-code-block its two
\* optional sub-directives, and a YAML action its language as the argument and
\* as the option.
DirectiveInputs ==
    {Directive(CodeBlock, a, l, NoSub, NoSub, 1) : a \in LanguageArguments, l \in LanguageOptions}
    \cup {Directive(LiteralInclude, a, l, NoSub, NoSub, 1) : a \in FileArguments, l \in LanguageOptions}
    \cup {Directive(IoCodeBlock, "", l, i, o, 1) : l \in {"", "go"}, i \in SubDirectives,
                                                   o \in SubDirectives}
    \cup {Directive(YAMLCodeBlock, l, l, NoSub, NoSub, 1) : l \in {"sh", "python"}}

ProcessInputs ==
    [directive : DirectiveInputs,
     contentDir : {"", "pymongo-driver", "mongodb-shell"},
     contexts : {<<>>, <<CodeContext("", "", "python")>>, <<CodeContext("nodejs", "", "")>>},
     mappings : {TestMappings}]

InitProcess ==
    /\ pc = "process"
    /\ arg \in ProcessInputs
    /\ out = None
    /\ WalkIdle
    /\ TrackerIdle
    /\ MergeIdle

ProcessDirective ==
    /\ pc = "process"
    /\ out' = processDirective(arg.directive, "/source.rst", arg.contentDir, arg.contexts,
                               arg.mappings)
    /\ pc' = "processed"
    /\ UNCHANGED <<arg, fs, visited, stack, result>>
    /\ UNCHANGED <<trackerVars, mergeVars>>

NextProcess == ProcessDirective

SpecProcess == InitProcess /\ [][NextProcess]_vars

(***************************************************************************)
(* The inclusion walker: collectCodeExamples and                           *)
(* collectCodeExamplesWithContext                                          *)
(***************************************************************************)

\* A nil *CodeContext is the empty sequence and a pointer to c is <<c>>, so
\* that []CodeContext{*parentContext} is the pointer itself.
Nil == <<>>

contextBlock(context, startLine, endLine) ==
    [context |-> context, startLine |-> startLine, endLine |-> endLine]

\* findContextForLine that takes a block for enclosing every line from its
\* start on, whatever its end.
RECURSIVE findContextForLine_startOnly(_, _, _)
findContextForLine_startOnly(lineNum, contextBlocks, fileContext) ==
    IF contextBlocks = <<>> THEN fileContext
    ELSE LET block == Head(contextBlocks)
         IN  IF /\ lineNum >= block.startLine
                /\ (block.context.TabID # "" \/ block.context.Language # ""
                    \/ block.context.Interface # "")
             THEN <<block.context>>
             ELSE findContextForLine_startOnly(lineNum, Tail(contextBlocks), fileContext)

\* The first block, in list order, that contains the line and has a
\* non-empty context decides; otherwise the file-level contexts.
RECURSIVE findContextForLine(_, _, _)
findContextForLine(lineNum, contextBlocks, fileContext) ==
    IF contextBlocks = <<>> THEN fileContext
    ELSE LET block == Head(contextBlocks)
         IN  IF /\ lineNum >= block.startLine /\ lineNum <= block.endLine
                /\ (block.context.TabID # "" \/ block.context.Language # ""
                    \/ block.context.Interface # "")
             THEN <<block.context>>
             ELSE findContextForLine(lineNum, Tail(contextBlocks), fileContext)

\* What the parsers return for a file that can be read: ParseDirectives
\* (dirs), FindIncludeDirectives (incs), parseSelectedContentBlocks (sel),
\* parseContextBlocks (blocks) and parseFileContexts (fileCtx).
FileContent(dirs, incs, sel, blocks, fileCtx) ==
    [ok |-> TRUE, dirs |-> dirs, incs |-> incs, sel |-> sel, blocks |-> blocks,
     fileCtx |-> fileCtx]

\* A file ParseDirectives fails on.
Unreadable == [ok |-> FALSE]

\* A file no call has opened yet.
NotRead == [ok |-> FALSE, unread |-> TRUE]

\* Lines 246-272: the examples of the file's own directives, in directive
\* order, each classified with the context of its line, or with the parent's
\* context when there is one.
RECURSIVE localExamples(_, _, _, _, _, _, _)
localExamples(directives, filePath, contentDir, contextBlocks, fileContext, mappings, acc) ==
    IF directives = <<>> THEN acc
    ELSE localExamples(Tail(directives), filePath, contentDir, contextBlocks, fileContext,
                       mappings,
                       acc \o processDirective(Head(directives), filePath, contentDir,
                              findContextForLine(Head(directives).LineNum, contextBlocks,
                                                 fileContext),
                              mappings))

\* includeContext with the inherited context taking priority over the
\* include's own selector entry.
includeContext_parentFirst(selectedContentMap, includeFile, parentContext, mappings) ==
    IF parentContext # Nil THEN parentContext
    ELSE IF includeFile \in DOMAIN selectedContentMap
    THEN IF selectedContentMap[includeFile] \in DOMAIN mappings.DriversTabIDToProduct
         THEN <<CodeContext(selectedContentMap[includeFile], "", "")>>
         ELSE <<CodeContext("", "", selectedContentMap[includeFile])>>
    ELSE Nil

\* Lines 279-291: the context handed to the recursive call for one include.
includeContext(selectedContentMap, includeFile, parentContext, mappings) ==
    IF includeFile \in DOMAIN selectedContentMap
    THEN IF selectedContentMap[includeFile] \in DOMAIN mappings.DriversTabIDToProduct
         THEN <<CodeContext(selectedContentMap[includeFile], "", "")>>
         ELSE <<CodeContext("", "", selectedContentMap[includeFile])>>
    ELSE IF parentContext # Nil THEN parentContext
    ELSE Nil

\* A walker whose cycle guard never finds a file visited.
alreadyVisited_never(visitedPaths, filePath) == FALSE

\* Line 227: visited[filePath].
alreadyVisited(visitedPaths, filePath) == filePath \in visitedPaths

\* A walker that does not record the file it enters.
markVisited_forgets(visitedPaths, filePath) == visitedPaths

\* Line 230: visited[filePath] = true.
markVisited(visitedPaths, filePath) == visitedPaths \cup {filePath}

\* A caller that puts the included examples in front of its own.
afterInclude_prepends(examples, includedExamples, err) ==
    IF ~err THEN includedExamples \o examples ELSE examples

\* A caller that gives up what it has collected when an include fails.
afterInclude_dropsOnError(examples, includedExamples, err) ==
    IF ~err THEN examples \o includedExamples ELSE <<>>

\* Lines 293-296: the caller appends the included examples unless the
\* recursive call returned an error.
afterInclude(examples, includedExamples, err) ==
    IF ~err THEN examples \o includedExamples ELSE examples

\* The activation record of one call that got past ParseDirectives: its
\* arguments, the examples appended so far and the index of the next entry of
\* includeFiles.
Frame(filePath, parentContext, examples, next) ==
    [filePath |-> filePath, parentContext |-> parentContext, examples |-> examples,
     next |-> next]

enterFile(filePath, parentContext, content) ==
    Frame(filePath, parentContext,
          localExamples(content.dirs, filePath, arg.contentDir,
                        IF parentContext # Nil THEN <<>> ELSE content.blocks,
                        IF parentContext # Nil THEN parentContext ELSE content.fileCtx,
                        arg.mappings, <<>>),
          1)

(***************************************************************************)
(* The files a walk reads                                                  *)
(***************************************************************************)

Files == {"/a.txt", "/b.rst", "/c.rst", "/d.rst"}

\* Include directives in all the files of one walk together.
MaxIncludes == 3

\* Code directives in all the files of one walk together.
MaxDirectives == 2

\* Frames the model lets the stack hold; a walk never needs more than one
\* frame per file.
MaxDepth == 4

WalkDirectives ==
    {Directive(CodeBlock, "python", "", NoSub, NoSub, 2),
     Directive(CodeBlock, "javascript", "", NoSub, NoSub, 5)}

\* Directive lists in document order.
DirectiveLists(n) ==
    {ds \in SeqsUpTo(WalkDirectives, n) :
        \A i \in 1..Len(ds) - 1 : ds[i].LineNum < ds[i + 1].LineNum}

\* A selector that is a drivers tab ID and one that is not.
Selectors == {"nodejs", "go"}

SelectorMaps(targets) == UNION {[S -> Selectors] : S \in SUBSET targets}

\* One selected-content block over lines 1 to 3: the directive at line 2 lies
\* inside it, the directive at line 5 outside every block.
WalkBlocks == {<<contextBlock(CodeContext("", "", "go"), 1, 3)>>}

WalkFileContexts == {<<EmptyContext>>}

RECURSIVE SumOver(_, _)
SumOver(S, f) ==
    IF S = {} THEN 0
    ELSE LET x == CHOOSE y \in S : TRUE IN f[x] + SumOver(S \ {x}, f)

IncludesRead == SumOver(Files, [f \in Files |-> IF fs[f].ok THEN Len(fs[f].incs) ELSE 0])

DirectivesRead == SumOver(Files, [f \in Files |-> IF fs[f].ok THEN Len(fs[f].dirs) ELSE 0])

\* The readable contents a file opened now can have.
Contents ==
    {FileContent(ds, is, sel, bs, fc) :
        ds \in DirectiveLists(MaxDirectives - DirectivesRead),
        is \in SeqsUpTo(Files, MaxIncludes - IncludesRead),
        sel \in SelectorMaps(Files),
        bs \in WalkBlocks,
        fc \in WalkFileContexts}

ReadableContents == {c \in Contents : DOMAIN c.sel \subseteq Range(c.incs)}

InitWalk ==
    /\ pc = "start"
    /\ arg \in [filePath : {"/a.txt"}, contentDir : {"manual"}, mappings : {TestMappings}]
    /\ out = <<>>
    /\ fs = [f \in Files |-> NotRead]
    /\ visited = {}
    /\ stack = <<>>
    /\ result = None
    /\ TrackerIdle
    /\ MergeIdle

Top == stack[Len(stack)]

Target == fs[Top.filePath].incs[Top.next]

\* AnalyzePage lines 160-161 and the top-level call up to line 272, on an
\* entry file that parses; on an entry already in the visited set the call
\* returns (nil, nil) at line 228. A file read before is read again with the
\* same content.
Start ==
    /\ pc = "start"
    /\ IF alreadyVisited(visited, arg.filePath)
       THEN /\ result' = [examples |-> <<>>, err |-> FALSE]
            /\ pc' = "done"
            /\ UNCHANGED <<fs, visited, stack>>
       ELSE /\ fs[arg.filePath] # Unreadable
            /\ \E content \in (IF fs[arg.filePath].ok THEN {fs[arg.filePath]}
                               ELSE ReadableContents) :
                  /\ fs' = [fs EXCEPT ![arg.filePath] = content]
                  /\ stack' = <<enterFile(arg.filePath, Nil, content)>>
            /\ visited' = markVisited(visited, arg.filePath)
            /\ pc' = "walk"
            /\ UNCHANGED result
    /\ UNCHANGED <<arg, out>>
    /\ UNCHANGED <<trackerVars, mergeVars>>

\* The top-level call on an entry file ParseDirectives fails on: the error
\* goes to AnalyzePage.
StartFail ==
    /\ pc = "start"
    /\ ~alreadyVisited(visited, arg.filePath)
    /\ fs[arg.filePath] \in {NotRead, Unreadable}
    /\ fs' = [fs EXCEPT ![arg.filePath] = Unreadable]
    /\ visited' = markVisited(visited, arg.filePath)
    /\ result' = [examples |-> <<>>, err |-> TRUE]
    /\ pc' = "done"
    /\ UNCHANGED <<arg, out, stack>>
    /\ UNCHANGED <<trackerVars, mergeVars>>

\* Lines 277-293 and the callee's lines 227-272: the recursive call on an
\* include not visited yet, which parses. A file read before is read again
\* with the same content.
Descend ==
    /\ pc = "walk"
    /\ Len(stack) < MaxDepth
    /\ Top.next <= Len(fs[Top.filePath].incs)
    /\ ~alreadyVisited(visited, Target)
    /\ \E content \in (IF fs[Target].ok THEN {fs[Target]} ELSE ReadableContents) :
          /\ fs[Target] # Unreadable
          /\ fs' = [fs EXCEPT ![Target] = content]
          /\ stack' = Append(stack,
                enterFile(Target,
                          includeContext(fs[Top.filePath].sel, Target, Top.parentContext,
                                         arg.mappings),
                          content))
    /\ visited' = markVisited(visited, Target)
    /\ UNCHANGED <<pc, arg, out, result>>
    /\ UNCHANGED <<trackerVars, mergeVars>>

\* The recursive call on an include already visited returns (nil, nil) at
\* line 228; the caller appends nothing and goes on.
SkipVisited ==
    /\ pc = "walk"
    /\ Top.next <= Len(fs[Top.filePath].incs)
    /\ alreadyVisited(visited, Target)
    /\ stack' = [stack EXCEPT ![Len(stack)].examples = afterInclude(@, <<>>, FALSE),
                              ![Len(stack)].next = @ + 1]
    /\ UNCHANGED <<pc, arg, out, fs, visited, result>>
    /\ UNCHANGED <<trackerVars, mergeVars>>

\* The recursive call on an include ParseDirectives fails on returns the
\* error at line 237, after marking the file visited; the caller drops the
\* error at line 294 and goes on.
SkipUnreadable ==
    /\ pc = "walk"
    /\ Top.next <= Len(fs[Top.filePath].incs)
    /\ ~alreadyVisited(visited, Target)
    /\ fs[Target] \in {NotRead, Unreadable}
    /\ fs' = [fs EXCEPT ![Target] = Unreadable]
    /\ visited' = markVisited(visited, Target)
    /\ stack' = [stack EXCEPT ![Len(stack)].examples = afterInclude(@, <<>>, TRUE),
                              ![Len(stack)].next = @ + 1]
    /\ UNCHANGED <<pc, arg, out, result>>
    /\ UNCHANGED <<trackerVars, mergeVars>>

\* Line 300: the call returns its examples; the caller appends them at line
\* 295, and AnalyzePage takes those of the top-level call.
Return ==
    /\ pc = "walk"
    /\ Top.next > Len(fs[Top.filePath].incs)
    /\ IF Len(stack) = 1
       THEN /\ result' = [examples |-> Top.examples, err |-> FALSE]
            /\ stack' = <<>>
            /\ pc' = "done"
       ELSE /\ stack' = [SubSeq(stack, 1, Len(stack) - 1) EXCEPT
                            ![Len(stack) - 1].examples = afterInclude(@, Top.examples, FALSE),
                            ![Len(stack) - 1].next = @ + 1]
            /\ UNCHANGED <<pc, result>>
    /\ UNCHANGED <<arg, out, fs, visited>>
    /\ UNCHANGED <<trackerVars, mergeVars>>

NextWalk == Start \/ StartFail \/ Descend \/ SkipVisited \/ SkipUnreadable \/ Return

SpecWalk == InitWalk /\ [][NextWalk]_vars

\* newVisited that hands the second analysis the set the first one filled.
newVisited_reusesOld(visitedPaths) == visitedPaths

\* AnalyzePage line 159: every top-level call gets a map made for it.
newVisited(visitedPaths) == {}

\* AnalyzePage is run a second time on the same page, with the same content
\* directory and mappings and the files as they were; out keeps what the
\* runs before returned.
Rerun ==
    /\ pc = "done"
    /\ out = <<>>
    /\ out' = <<result>>
    /\ visited' = newVisited(visited)
    /\ stack' = <<>>
    /\ result' = None
    /\ pc' = "start"
    /\ UNCHANGED <<arg, fs>>
    /\ UNCHANGED <<trackerVars, mergeVars>>

NextRerun == NextWalk \/ Rerun

SpecRerun == InitWalk /\ [][NextRerun]_vars

(***************************************************************************)
(* The context tracker: parseContextBlocks and parseFileContexts           *)
(***************************************************************************)

\* A line of a file, by what the scanners look at: its indentation (leading
\* spaces), and which of the patterns its text matches.
\*   blank        strings.TrimSpace(line) = ""
\*   text         any other line that does not start with ":" (prose, or a
\*                directive such as code-block)
\*   tab          rst.TabDirectiveRegex
\*   selected     rst.SelectedContentDirectiveRegex
\*   composable   rst.ComposableTutorialDirectiveRegex
\*   tabid        rst.TabIDOptionRegex, value the captured tab ID
\*   selections   rst.SelectionsOptionRegex, value the captured selection
\*   options      rst.OptionsOptionRegex, value the captured option string
\*   option       any other line that starts with ":"
Line(kind, indent, value) == [kind |-> kind, indent |-> indent, value |-> value]

IsBlank(line) == line.kind = "blank"

\* strings.HasPrefix(trimmedLine, ":")
HasOptionPrefix(line) == line.kind \in {"tabid", "selections", "options", "option"}

\* The local struct openBlock of parseContextBlocks.
openBlock(context, start, indent) == [context |-> context, start |-> start, indent |-> indent]

\* closeEnded that cuts the open blocks to those the line is inside but
\* appends the innermost of the ended blocks alone.
closeEnded_dropsOuter(openBlocks, blocks, i, indent, lineNum) ==
    LET kept == SelectSeq(openBlocks, LAMBDA b : b.indent < indent)
    IN  IF Len(kept) = Len(openBlocks)
        THEN [openBlocks |-> openBlocks, blocks |-> blocks]
        ELSE [openBlocks |-> kept,
              blocks |-> Append(blocks,
                                contextBlock(openBlocks[Len(openBlocks)].context,
                                             openBlocks[Len(openBlocks)].start,
                                             lineNum - 1))]

\* Lines 340-350: the loop from the innermost open block (index i) down to
\* the outermost; a block whose indentation the line has reached is appended
\* to blocks and the open blocks are cut to those below it.
RECURSIVE closeEnded(_, _, _, _, _)
closeEnded(openBlocks, blocks, i, indent, lineNum) ==
    IF i = 0 THEN [openBlocks |-> openBlocks, blocks |-> blocks]
    ELSE IF indent <= openBlocks[i].indent
    THEN closeEnded(SubSeq(openBlocks, 1, i - 1),
                    Append(blocks, contextBlock(openBlocks[i].context, openBlocks[i].start,
                                                lineNum - 1)),
                    i - 1, indent, lineNum)
    ELSE closeEnded(openBlocks, blocks, i - 1, indent, lineNum)

\* closeEnded that leaves a block open until the line is strictly less
\* indented than the block's marker.
closeOnLine_strictDedent(openBlocks, blocks, line, lineNum) ==
    IF ~IsBlank(line) /\ ~HasOptionPrefix(line)
    THEN closeEnded(openBlocks, blocks, Len(openBlocks), line.indent + 1, lineNum)
    ELSE [openBlocks |-> openBlocks, blocks |-> blocks]

\* closeOnLine that closes the outermost open block alone and leaves the
\* blocks inside it open.
closeOnLine_outermostOnly(openBlocks, blocks, line, lineNum) ==
    IF /\ ~IsBlank(line) /\ ~HasOptionPrefix(line)
       /\ openBlocks # <<>>
       /\ line.indent <= openBlocks[1].indent
    THEN [openBlocks |-> Tail(openBlocks),
          blocks |-> Append(blocks, contextBlock(openBlocks[1].context, openBlocks[1].start,
                                                 lineNum - 1))]
    ELSE [openBlocks |-> openBlocks, blocks |-> blocks]

\* Lines 338-351: only a non-blank line that is not an option line closes.
closeOnLine(openBlocks, blocks, line, lineNum) ==
    IF ~IsBlank(line) /\ ~HasOptionPrefix(line)
    THEN closeEnded(openBlocks, blocks, Len(openBlocks), line.indent, lineNum)
    ELSE [openBlocks |-> openBlocks, blocks |-> blocks]

\* Lines 373-384: a :tabid: line sets the TabID of the most recent open
\* block, a :selections: line its Language. The code does not look at opened.
fillSelector(openBlocks, opened, line) ==
    LET n == Len(openBlocks)
    IN  IF n = 0 THEN openBlocks
        ELSE IF line.kind = "tabid"
        THEN [openBlocks EXCEPT ![n].context.TabID = TrimSpace(line.value)]
        ELSE IF line.kind = "selections"
        THEN [openBlocks EXCEPT ![n].context.Language = TrimSpace(line.value)]
        ELSE openBlocks

\* Lines 387-394: the blocks still open at the end of the file, in the order
\* they were opened, each ending at the last line.
RECURSIVE closeRemaining(_, _, _)
closeRemaining(openBlocks, blocks, lineNum) ==
    IF openBlocks = <<>> THEN blocks
    ELSE closeRemaining(Tail(openBlocks),
             Append(blocks, contextBlock(Head(openBlocks).context, Head(openBlocks).start, lineNum)),
             lineNum)

\* Lines 353-371: a tab or selected-content marker opens a block with an
\* empty context at the marker's line and indentation.
openOnLine(openBlocks, line, lineNum) ==
    IF line.kind \in {"tab", "selected"}
    THEN Append(openBlocks, openBlock(EmptyContext, lineNum, line.indent))
    ELSE openBlocks

\* parseComposableOptions on the option strings of ComposableOptions.
parseComposableOptions(options) ==
    CASE options = "language=python; interface=driver" -> CodeContext("", "driver", "python")
      [] options = "interface = mongosh" -> CodeContext("", "mongosh", "")
      [] OTHER -> EmptyContext

\* parseFileContexts, lines 828-869, one line at a time. mode is where the
\* scan stands: "top" in the outer loop, "tab" in the loop that looks for the
\* :tabid: of a tab marker (lines 835-848), "composable" in the loop that
\* looks for the :options: of a composable-tutorial marker (lines 854-867).
\* A line read by an inner loop is not looked at again by the outer loop.
fileContextsLine(mode, contexts, line) ==
    IF mode = "top"
    THEN [mode |-> IF line.kind = "tab" THEN "tab"
                   ELSE IF line.kind = "composable" THEN "composable"
                   ELSE "top",
          contexts |-> contexts]
    ELSE IF IsBlank(line) THEN [mode |-> "top", contexts |-> contexts]
    ELSE IF mode = "tab" /\ line.kind = "tabid"
    THEN [mode |-> "top",
          contexts |-> Append(contexts, CodeContext(TrimSpace(line.value), "", ""))]
    ELSE IF mode = "composable" /\ line.kind = "options"
    THEN [mode |-> "top", contexts |-> Append(contexts, parseComposableOptions(line.value))]
    ELSE IF ~HasOptionPrefix(line) THEN [mode |-> "top", contexts |-> contexts]
    ELSE [mode |-> mode, contexts |-> contexts]

\* Lines 871-873: a file with no context has the one empty context.
fileContextsEnd(contexts) == IF contexts = <<>> THEN <<EmptyContext>> ELSE contexts

\* Lines 248-269: the contexts of the directive at lineNum. A file entered
\* with an inherited context uses that context for every directive and has no
\* context blocks.
directiveContexts(parentContext, lineNum, contextBlocks, fileContext) ==
    IF parentContext # Nil
    THEN findContextForLine(lineNum, <<>>, parentContext)
    ELSE findContextForLine(lineNum, contextBlocks, fileContext)

\* Lines a file is scanned for at most.
MaxLines == 5

Indents == {0, 3, 6}

TrackLines ==
    {Line("blank", 0, "")}
    \cup {Line("text", d, "") : d \in Indents}
    \cup {Line(k, d, "") : k \in {"tab", "selected"}, d \in {0, 3}}
    \cup {Line("composable", 0, "")}
    \cup {Line("tabid", 3, v) : v \in {"python", "java"}}
    \cup {Line("selections", 3, "go")}
    \cup {Line("options", 3, "language=python; interface=driver")}
    \cup {Line("option", 3, "")}

NoLine == Line("none", 0, "")

InitTrack ==
    /\ pc = "scan"
    /\ arg = None
    /\ out = None
    /\ tracker = [lineNum |-> 0, line |-> NoLine, openBlocks |-> <<>>, opened |-> <<>>,
                  blocks |-> <<>>, mode |-> "top", contexts |-> <<>>, directive |-> 0]
    /\ WalkIdle
    /\ MergeIdle

\* One turn of the loop of parseContextBlocks (lines 331-385) on the next
\* line of the file, and of parseFileContexts on the same line. opened
\* records the kind of marker behind each open block, and directive the line
\* of the directive whose contexts are resolved afterwards; the code keeps
\* neither.
ScanLine ==
    /\ pc = "scan"
    /\ tracker.lineNum < MaxLines
    /\ \E line \in TrackLines, isDirective \in BOOLEAN :
          /\ isDirective => (line.kind = "text" /\ tracker.directive = 0)
          /\ LET lineNum == tracker.lineNum + 1
                 closed == closeOnLine(tracker.openBlocks, tracker.blocks, line, lineNum)
                 stillOpened == SubSeq(tracker.opened, 1, Len(closed.openBlocks))
                 pushed == openOnLine(closed.openBlocks, line, lineNum)
                 filled == IF Len(pushed) > Len(closed.openBlocks) THEN pushed
                           ELSE fillSelector(pushed, stillOpened, line)
                 fileScan == fileContextsLine(tracker.mode, tracker.contexts, line)
             IN  tracker' = [lineNum |-> lineNum, line |-> line,
                             openBlocks |-> filled,
                             opened |-> IF Len(pushed) > Len(closed.openBlocks)
                                        THEN Append(stillOpened, line.kind) ELSE stillOpened,
                             blocks |-> closed.blocks,
                             mode |-> fileScan.mode, contexts |-> fileScan.contexts,
                             directive |-> IF isDirective THEN lineNum ELSE tracker.directive]
    /\ UNCHANGED <<pc, arg, out, walkVars, mergeVars>>

\* Lines 387-396 and 871-875: the end of the file.
EndOfFile ==
    /\ pc = "scan"
    /\ tracker' = [tracker EXCEPT
                      !.blocks = closeRemaining(tracker.openBlocks, tracker.blocks, tracker.lineNum),
                      !.contexts = fileContextsEnd(tracker.contexts)]
    /\ pc' = "eof"
    /\ UNCHANGED <<arg, out, walkVars, mergeVars>>

\* Lines 248-269 for the directive of the file, in a call entered with no
\* inherited context or with one.
ResolveDirective ==
    /\ pc = "eof"
    /\ tracker.directive > 0
    /\ \E parentContext \in {Nil, <<CodeContext("nodejs", "", "")>>} :
          out' = [parentContext |-> parentContext,
                  contexts |-> directiveContexts(parentContext, tracker.directive,
                                                 tracker.blocks, tracker.contexts)]
    /\ pc' = "resolved"
    /\ UNCHANGED <<arg, walkVars, trackerVars, mergeVars>>

NextTrack == ScanLine \/ EndOfFile \/ ResolveDirective

SpecTrack == InitTrack /\ [][NextTrack]_vars

(***************************************************************************)
(* MergeProjectComposables and the snooty.toml cache                       *)
(***************************************************************************)

\* internal/snooty: the parts of a parsed snooty.toml the merge reads.
ComposableOption(id, title) == [ID |-> id, Title |-> title]

Composable(id, options) == [ID |-> id, Options |-> options]

Config(composables) == [Composables |-> composables]

\* A snooty.toml on disk: absent, present but not valid TOML, or present with
\* the configuration it parses to.
Absent == [exists |-> FALSE]

Malformed == [exists |-> TRUE, parses |-> FALSE]

Manifest(config) == [exists |-> TRUE, parses |-> TRUE, config |-> config]

\* A path is the sequence of its components below the filesystem root.
\* filepath.Dir, filepath.Base and filepath.Join on such paths.
Dir(path) == IF path = <<>> THEN <<>> ELSE SubSeq(path, 1, Len(path) - 1)

Base(path) == IF path = <<>> THEN "/" ELSE path[Len(path)]

Join(dir, name) == Append(dir, name)

\* The empty path, Go's "".
NoPath == <<>>

\* os.Stat succeeds on the path.
Exists(path, manifests) == path \in DOMAIN manifests /\ manifests[path].exists

\* The loop of FindProjectSnootyTOML from directory dir upwards: "" when the
\* content directory or the root has been passed without a snooty.toml.
RECURSIVE findFrom(_, _)
findFrom(dir, manifests) ==
    IF Exists(Join(dir, "snooty.toml"), manifests) THEN Join(dir, "snooty.toml")
    ELSE IF Base(dir) = "content" THEN NoPath
    ELSE IF Dir(dir) = dir THEN NoPath
    ELSE findFrom(Dir(dir), manifests)

FindProjectSnootyTOML(sourcePath, manifests) == findFrom(Dir(sourcePath), manifests)

\* ParseFile that reads no composable out of a valid file.
ParseFile_noComposables(snootyPath, manifests) ==
    IF manifests[snootyPath].parses
    THEN [err |-> FALSE, config |-> Config(<<>>)]
    ELSE [err |-> TRUE, config |-> None]

\* snooty.ParseFile: the configuration, or an error on a file that is not
\* valid TOML.
ParseFile(snootyPath, manifests) ==
    IF manifests[snootyPath].parses
    THEN [err |-> FALSE, config |-> manifests[snootyPath].config]
    ELSE [err |-> TRUE, config |-> None]

\* The options of one composable written into the map, a later option of the
\* same ID over an earlier one.
RECURSIVE putOptions(_, _)
putOptions(options, titles) ==
    IF options = <<>> THEN titles
    ELSE putOptions(Tail(options),
                    (Head(options).ID :> Head(options).Title) @@ titles)

RECURSIVE BuildComposableIDToTitleMap(_, _)
BuildComposableIDToTitleMap(composables, composableID) ==
    IF composables = <<>> THEN <<>>
    ELSE LET rest == BuildComposableIDToTitleMap(Tail(composables), composableID)
             first == IF Head(composables).ID = composableID
                      THEN putOptions(Head(composables).Options, <<>>)
                      ELSE <<>>
         IN  rest @@ first

\* overlay in which an entry of the base table wins over the project's.
overlay_baseWins(baseTable, projectTable) == baseTable @@ projectTable

\* Lines 270-286 for one table: the base entries are copied into the new map,
\* then the project's entries are written over them.
overlay(baseTable, projectTable) == projectTable @@ baseTable

\* Lines 259-286: the contents of the merged mappings.
mergedMappings(base, config) ==
    [DriversTabIDToProduct |-> base.DriversTabIDToProduct,
     ComposableLanguageToProduct |->
        overlay(base.ComposableLanguageToProduct,
                BuildComposableIDToTitleMap(config.Composables, "language")),
     ComposableInterfaceToProduct |->
        overlay(base.ComposableInterfaceToProduct,
                BuildComposableIDToTitleMap(config.Composables, "interface"))]

\* The reference of the base mappings in the heap.
BaseRef == 1

\* newMappings that hands out the base mappings themselves.
newMappings_aliasesBase(objects) == BaseRef

\* Line 260: merged is a newly allocated ProductMappings.
newMappings(objects) == Len(objects) + 1

\* The heap after the maps of the object at ref have been written.
store(objects, ref, mappings) ==
    [r \in 1..(IF ref > Len(objects) THEN ref ELSE Len(objects)) |->
        IF r = ref THEN mappings ELSE objects[r]]

\* sync.RWMutex: RLock waits while a writer holds the lock or waits for it.
canRLock(cache) == cache.writer = 0

\* canLock that does not wait for the readers to leave.
canLock_ignoresReaders(cache) == TRUE

\* sync.RWMutex: a writer that has announced itself gets the lock once no
\* reader holds it.
canLock(cache) == cache.readers = {}

Goroutines == {1, 2}

MaxCalls == 2

MaxOptions == 2

AtlasToml == <<"content", "atlas", "snooty.toml">>

ManualToml == <<"content", "manual", "v8.0", "snooty.toml">>

SourcePaths ==
    {<<"content", "atlas", "source", "a.rst">>,
     <<"content", "atlas", "source", "includes", "b.rst">>,
     <<"content", "manual", "v8.0", "source", "c.rst">>,
     <<"tmp", "x.rst">>}

\* The base mappings of TestMergeProjectComposables, with or without an entry
\* for "go" the project declares too.
BaseMappings ==
    {[DriversTabIDToProduct |-> ("python" :> "Python"),
      ComposableLanguageToProduct |-> ("python" :> "Python"),
      ComposableInterfaceToProduct |-> ("driver" :> "Driver")],
     [DriversTabIDToProduct |-> ("python" :> "Python"),
      ComposableLanguageToProduct |-> ("python" :> "Python") @@ ("go" :> "Golang"),
      ComposableInterfaceToProduct |-> ("driver" :> "Driver")]}

\* The snooty.toml of the test project: language and interface composables,
\* and one the merge does not read.
AtlasConfig ==
    Config(<<Composable("language", <<ComposableOption("nodejs", "Node.js"),
                                      ComposableOption("go", "Go")>>),
             Composable("interface", <<ComposableOption("mongosh", "MongoDB Shell")>>),
             Composable("deployment-type", <<ComposableOption("atlas", "Atlas")>>)>>)

\* A snooty.toml with two language composables that give "go" two titles.
ManualConfig ==
    Config(<<Composable("language", <<ComposableOption("go", "Go")>>),
             Composable("language", <<ComposableOption("go", "Go Driver")>>)>>)

Manifests ==
    {(AtlasToml :> a) @@ (ManualToml :> m) :
        a \in {Absent, Malformed, Manifest(Config(<<>>)), Manifest(AtlasConfig)},
        m \in {Absent, Manifest(ManualConfig)}}

\* A goroutine that is not inside MergeProjectComposables; n counts its calls
\* so far, result and snootyPath are those of its last call.
idleCall(n, snootyPath, returned) ==
    [pc |-> "idle", n |-> n, sourcePath |-> None, snootyPath |-> snootyPath,
     config |-> None, found |-> FALSE, result |-> returned]

InitMerge ==
    /\ pc = "merge"
    /\ arg \in [baseMappings : BaseMappings, manifests : Manifests]
    /\ out = None
    /\ heap = <<arg.baseMappings>>
    /\ snootyCache = [configs |-> <<>>, readers |-> {}, writer |-> 0]
    /\ calls = [g \in Goroutines |-> idleCall(0, NoPath, 0)]
    /\ WalkIdle
    /\ TrackerIdle

mergeFrame == <<pc, arg, out, walkVars, trackerVars>>

\* Lines 224-230: a goroutine calls MergeProjectComposables on a source path
\* and returns the base mappings when no snooty.toml is found.
MergeBegin ==
    \E g \in Goroutines, sourcePath \in SourcePaths :
        /\ calls[g].pc = "idle"
        /\ calls[g].n < MaxCalls
        /\ LET snootyPath == FindProjectSnootyTOML(sourcePath, arg.manifests)
           IN  calls' = [calls EXCEPT ![g] =
                  IF snootyPath = NoPath
                  THEN idleCall(calls[g].n + 1, NoPath, BaseRef)
                  ELSE [pc |-> "rlock", n |-> calls[g].n + 1, sourcePath |-> sourcePath,
                        snootyPath |-> snootyPath, config |-> None, found |-> FALSE,
                        result |-> 0]]
        /\ UNCHANGED <<heap, snootyCache, mergeFrame>>

\* Line 233.
CacheRLock ==
    \E g \in Goroutines :
        /\ calls[g].pc = "rlock"
        /\ canRLock(snootyCache)
        /\ snootyCache' = [snootyCache EXCEPT !.readers = @ \cup {g}]
        /\ calls' = [calls EXCEPT ![g].pc = "read"]
        /\ UNCHANGED <<heap, mergeFrame>>

\* Line 234.
CacheRead ==
    \E g \in Goroutines :
        /\ calls[g].pc = "read"
        /\ LET found == calls[g].snootyPath \in DOMAIN snootyCache.configs
           IN  calls' = [calls EXCEPT ![g].pc = "runlock",
                                     ![g].found = found,
                                     ![g].config = IF found
                                                   THEN snootyCache.configs[calls[g].snootyPath]
                                                   ELSE None]
        /\ UNCHANGED <<heap, snootyCache, mergeFrame>>

\* Line 235, and the branch of line 238.
CacheRUnlock ==
    \E g \in Goroutines :
        /\ calls[g].pc = "runlock"
        /\ snootyCache' = [snootyCache EXCEPT !.readers = @ \ {g}]
        /\ calls' = [calls EXCEPT ![g].pc = IF calls[g].found THEN "merge" ELSE "parse"]
        /\ UNCHANGED <<heap, mergeFrame>>

\* Lines 242-246: the file is parsed outside the lock; the base mappings are
\* returned when it does not parse.
ParseManifest ==
    \E g \in Goroutines :
        /\ calls[g].pc = "parse"
        /\ LET parsed == ParseFile(calls[g].snootyPath, arg.manifests)
           IN  calls' = [calls EXCEPT ![g] =
                  IF parsed.err
                  THEN idleCall(calls[g].n, calls[g].snootyPath, BaseRef)
                  ELSE [@ EXCEPT !.pc = "lock", !.config = parsed.config]]
        /\ UNCHANGED <<heap, snootyCache, mergeFrame>>

\* Line 249, first half: the writer takes the writers' mutex and announces
\* itself, which stops new readers.
CacheLockRequest ==
    \E g \in Goroutines :
        /\ calls[g].pc = "lock"
        /\ snootyCache.writer = 0
        /\ snootyCache' = [snootyCache EXCEPT !.writer = g]
        /\ calls' = [calls EXCEPT ![g].pc = "lockwait"]
        /\ UNCHANGED <<heap, mergeFrame>>

\* Line 249, second half: the writer has the lock once the readers are gone.
CacheLock ==
    \E g \in Goroutines :
        /\ calls[g].pc = "lockwait"
        /\ canLock(snootyCache)
        /\ calls' = [calls EXCEPT ![g].pc = "write"]
        /\ UNCHANGED <<heap, snootyCache, mergeFrame>>

\* Line 250.
CacheWrite ==
    \E g \in Goroutines :
        /\ calls[g].pc = "write"
        /\ snootyCache' = [snootyCache EXCEPT
                              !.configs = (calls[g].snootyPath :> calls[g].config) @@ @]
        /\ calls' = [calls EXCEPT ![g].pc = "unlock"]
        /\ UNCHANGED <<heap, mergeFrame>>

\* Line 251.
CacheUnlock ==
    \E g \in Goroutines :
        /\ calls[g].pc = "unlock"
        /\ snootyCache' = [snootyCache EXCEPT !.writer = 0]
        /\ calls' = [calls EXCEPT ![g].pc = "merge"]
        /\ UNCHANGED <<heap, mergeFrame>>

\* Lines 254-288: the base mappings when the project declares no composable,
\* else a new object holding the base entries with the project's over them.
MergeReturn ==
    \E g \in Goroutines :
        /\ calls[g].pc = "merge"
        /\ IF Len(calls[g].config.Composables) = 0
           THEN /\ calls' = [calls EXCEPT ![g] = idleCall(calls[g].n, calls[g].snootyPath, BaseRef)]
                /\ UNCHANGED heap
           ELSE LET merged == newMappings(heap)
                IN  /\ heap' = store(heap, merged,
                                     mergedMappings(heap[BaseRef], calls[g].config))
                    /\ calls' = [calls EXCEPT ![g] =
                                    idleCall(calls[g].n, calls[g].snootyPath, merged)]
        /\ UNCHANGED <<snootyCache, mergeFrame>>

NextMerge ==
    \/ MergeBegin
    \/ CacheRLock
    \/ CacheRead
    \/ CacheRUnlock
    \/ ParseManifest
    \/ CacheLockRequest
    \/ CacheLock
    \/ CacheWrite
    \/ CacheUnlock
    \/ MergeReturn

SpecMerge == InitMerge /\ [][NextMerge]_vars

(***************************************************************************)
(* The YAML steps parser: ParseYAMLStepsFile                               *)
(***************************************************************************)

\* A key of an action map: absent, present with a value that is not a
\* string, or present with a string.
Missing == "<missing>"

NotAString == "<not a string>"

\* yaml:"..." fields of YAMLActionItem the parser reads.
YAMLActionItem(language, code) == [Language |-> language, Code |-> code]

\* An entry under action: in the document, a map or something else.
ActionMap(language, code) == [isMap |-> TRUE, language |-> language, code |-> code]

NotAMap == [isMap |-> FALSE]

\* m[key].(string): the string, or the zero value.
stringField(value) == IF value \in {Missing, NotAString} THEN "" ELSE value

parseActionMap(m) == YAMLActionItem(stringField(m.language), stringField(m.code))

RECURSIVE parseActionList(_)
parseActionList(items) ==
    IF items = <<>> THEN <<>>
    ELSE (IF Head(items).isMap THEN <<parseActionMap(Head(items))>> ELSE <<>>)
         \o parseActionList(Tail(items))

\* step.Action is nil, a list, a single map, or any other value.
extractActionsFromStep(step) ==
    CASE step.shape = "list" -> parseActionList(step.items)
      [] step.shape = "map" -> <<parseActionMap(step.items[1])>>
      [] OTHER -> <<>>

\* Lines 78-94: the directives of the actions of one document.
RECURSIVE actionDirectives(_, _)
actionDirectives(actions, lineNum) ==
    IF actions = <<>> THEN <<>>
    ELSE (IF Head(actions).Code # "" /\ Head(actions).Language # ""
          THEN <<Directive(YAMLCodeBlock, Head(actions).Language, Head(actions).Language,
                           NoSub, NoSub, lineNum)>>
          ELSE <<>>)
         \o actionDirectives(Tail(actions), lineNum)

MaxDocuments == 2

MaxActions == 2

ActionEntries ==
    {NotAMap} \cup {ActionMap(l, c) : l \in {Missing, NotAString, "sh"}, c \in {Missing, "curl -LO"}}

\* A document between "\n---" separators: blank, the end marker "...", one
\* yaml.Unmarshal fails on, or a step; newlines is strings.Count(doc, "\n").
Document(kind, newlines, shape, items) ==
    [kind |-> kind, newlines |-> newlines, shape |-> shape, items |-> items]

Documents ==
    {Document(k, n, "nil", <<>>) : k \in {"blank", "end", "invalid"}, n \in {1, 2}}
    \cup {Document("step", 3, s, <<>>) : s \in {"nil", "scalar"}}
    \cup {Document("step", 3, "map", <<e>>) : e \in ActionEntries \ {NotAMap}}
    \cup {Document("step", 3, "list", es) : es \in SeqsUpTo(ActionEntries, MaxActions)}

InitYAML ==
    /\ pc = "yaml-open"
    /\ arg \in [ext : {".yaml", ".YML", ".rst"}, readable : BOOLEAN,
                documents : SeqsUpTo(Documents, MaxDocuments)]
    /\ out = None
    /\ WalkIdle
    /\ TrackerIdle
    /\ MergeIdle

\* Lines 46-61: files of another extension give (nil, nil), an unreadable
\* file the error of os.ReadFile.
YAMLOpen ==
    /\ pc = "yaml-open"
    /\ IF ToLower(arg.ext) \notin {".yaml", ".yml"}
       THEN out' = [directives |-> <<>>, err |-> FALSE, lineNum |-> 0, next |-> 0]
            /\ pc' = "yaml-done"
       ELSE IF ~arg.readable
       THEN out' = [directives |-> <<>>, err |-> TRUE, lineNum |-> 0, next |-> 0]
            /\ pc' = "yaml-done"
       ELSE out' = [directives |-> <<>>, err |-> FALSE, lineNum |-> 1, next |-> 1]
            /\ pc' = "yaml-loop"
    /\ UNCHANGED <<arg, walkVars, trackerVars, mergeVars>>

\* Lines 63-97: one turn of the loop over the documents.
YAMLDocument ==
    /\ pc = "yaml-loop"
    /\ out.next <= Len(arg.documents)
    /\ LET doc == arg.documents[out.next]
       IN  out' = IF doc.kind \in {"blank", "end", "invalid"}
                  THEN [out EXCEPT !.lineNum = @ + doc.newlines, !.next = @ + 1]
                  ELSE [out EXCEPT
                           !.directives = @ \o actionDirectives(extractActionsFromStep(doc),
                                                                out.lineNum),
                           !.lineNum = @ + doc.newlines + 1,
                           !.next = @ + 1]
    /\ UNCHANGED <<pc, arg, walkVars, trackerVars, mergeVars>>

\* Line 99.
YAMLReturn ==
    /\ pc = "yaml-loop"
    /\ out.next > Len(arg.documents)
    /\ pc' = "yaml-done"
    /\ UNCHANGED <<arg, out, walkVars, trackerVars, mergeVars>>

NextYAML == YAMLOpen \/ YAMLDocument \/ YAMLReturn

SpecYAML == InitYAML /\ [][NextYAML]_vars

(***************************************************************************)
(* The inclusion-to-selector map: parseSelectedContentBlocks               *)
(***************************************************************************)

\* strings.HasPrefix(trimmed, ".."): the directive lines of the model.
HasDirectivePrefix(line) == line.kind \in {"tab", "selected", "composable", "include", "directive"}

\* rst.ResolveIncludePath on the include arguments of the model: the path of
\* the file under the source directory, or an error for a file that is not
\* there.
ResolveIncludePath(includePath) ==
    IF includePath = "/includes/gone.rst"
    THEN [err |-> TRUE, path |-> ""]
    ELSE [err |-> FALSE, path |-> "/content/manual/source" \o includePath]

\* The locals of parseSelectedContentBlocks before the first line.
selectedLocals ==
    [result |-> <<>>, currentSelection |-> "", currentTabID |-> "",
     inSelectedContent |-> FALSE, inTab |-> FALSE, blockIndent |-> 0]

\* Lines 752-765: a directive line other than a tab or selected-content
\* marker, at the indentation of the block or less, ends the block.
exitBlock(s, line) ==
    IF /\ ~IsBlank(line)
       /\ line.indent <= s.blockIndent
       /\ ~HasOptionPrefix(line)
       /\ HasDirectivePrefix(line)
    THEN [s EXCEPT !.inSelectedContent = FALSE, !.inTab = FALSE,
                   !.currentSelection = "", !.currentTabID = ""]
    ELSE s

\* Lines 767-780: an include line is entered under the selector of the
\* current block, if it has one.
recordInclude(s, line) ==
    IF line.kind = "include" /\ ~ResolveIncludePath(line.value).err
    THEN LET resolvedPath == ResolveIncludePath(line.value).path
         IN  IF s.inSelectedContent /\ s.currentSelection # ""
             THEN [s EXCEPT !.result = (resolvedPath :> s.currentSelection) @@ @]
             ELSE IF s.inTab /\ s.currentTabID # ""
             THEN [s EXCEPT !.result = (resolvedPath :> s.currentTabID) @@ @]
             ELSE s
    ELSE s

\* Lines 711-781: one turn of the loop of parseSelectedContentBlocks.
selectedLine(s, line) ==
    IF line.kind = "selected"
    THEN [s EXCEPT !.inSelectedContent = TRUE, !.inTab = FALSE,
                   !.blockIndent = line.indent, !.currentSelection = ""]
    ELSE IF line.kind = "tab"
    THEN [s EXCEPT !.inTab = TRUE, !.inSelectedContent = FALSE,
                   !.blockIndent = line.indent, !.currentTabID = ""]
    ELSE IF s.inSelectedContent /\ s.currentSelection = "" /\ line.kind = "selections"
    THEN [s EXCEPT !.currentSelection = TrimSpace(line.value)]
    ELSE IF s.inTab /\ s.currentTabID = "" /\ line.kind = "tabid"
    THEN [s EXCEPT !.currentTabID = TrimSpace(line.value)]
    ELSE recordInclude(exitBlock(s, line), line)

\* The blocks a line is inside, by the layout of the file: a line that is
\* neither blank nor an option line leaves every block opened at its
\* indentation or further right, a marker opens a block, an option line with
\* the key of the innermost block gives it its selector if it has none.
enclosing(open, line) ==
    IF IsBlank(line) THEN open
    ELSE IF HasOptionPrefix(line)
    THEN IF /\ open # <<>>
            /\ open[Len(open)].selector = ""
            /\ \/ open[Len(open)].kind = "tab" /\ line.kind = "tabid"
               \/ open[Len(open)].kind = "selected" /\ line.kind = "selections"
         THEN [open EXCEPT ![Len(open)].selector = TrimSpace(line.value)]
         ELSE open
    ELSE LET kept == SelectSeq(open, LAMBDA b : b.indent < line.indent)
         IN  IF line.kind \in {"tab", "selected"}
             THEN Append(kept, [kind |-> line.kind, indent |-> line.indent, selector |-> ""])
             ELSE kept

SelectedLines ==
    {Line("blank", 0, "")}
    \cup {Line("text", i, "") : i \in {0, 3}}
    \cup {Line("directive", 0, "note")}
    \cup {Line("tab", i, "Python") : i \in {0, 3}}
    \cup {Line("selected", 0, "")}
    \cup {Line("tabid", i, "python") : i \in {3, 6}}
    \cup {Line("selections", 3, " go ")}
    \cup {Line("include", i, "/includes/x.rst") : i \in {0, 3, 6}}
    \cup {Line("include", 3, "/includes/gone.rst")}

\* Lines a file is scanned for its include lines at most: two blocks, each
\* with its marker, its option line and an include line.
MaxSelectedLines == 6

\* tracker holds the locals of the scan, the line just read, and three records
\* of the layout: the blocks the line is inside (open), for every resolved
\* target the selectors of the blocks its include lines were directly inside
\* (marked), and for every resolved target the selector of the block its
\* first include line was directly inside, "" outside a block with a
\* selector (first).
InitSelected ==
    /\ pc = "selected-scan"
    /\ arg = None
    /\ out = None
    /\ tracker = [lineNum |-> 0, line |-> NoLine, locals |-> selectedLocals,
                  open |-> <<>>, marked |-> <<>>, first |-> <<>>]
    /\ WalkIdle
    /\ MergeIdle

SelectedScanLine ==
    /\ pc = "selected-scan"
    /\ tracker.lineNum < MaxSelectedLines
    /\ \E line \in SelectedLines :
          LET open == enclosing(tracker.open, line)
              resolved == ResolveIncludePath(line.value)
              under == IF open # <<>> /\ open[Len(open)].selector # ""
                       THEN {open[Len(open)].selector} ELSE {}
              before == IF resolved.path \in DOMAIN tracker.marked
                        THEN tracker.marked[resolved.path] ELSE {}
          IN  tracker' = [lineNum |-> tracker.lineNum + 1,
                          line |-> line,
                          locals |-> selectedLine(tracker.locals, line),
                          open |-> open,
                          marked |-> IF line.kind = "include" /\ ~resolved.err
                                     THEN (resolved.path :> (before \cup under)) @@ tracker.marked
                                     ELSE tracker.marked,
                          first |-> IF /\ line.kind = "include"
                                       /\ ~resolved.err
                                       /\ resolved.path \notin DOMAIN tracker.first
                                    THEN (resolved.path :>
                                             (IF under = {} THEN ""
                                              ELSE open[Len(open)].selector))
                                         @@ tracker.first
                                    ELSE tracker.first]
    /\ UNCHANGED <<pc, arg, out, walkVars, mergeVars>>

\* Line 783: the map is returned at the end of the file.
SelectedEndOfFile ==
    /\ pc = "selected-scan"
    /\ out' = tracker.locals.result
    /\ pc' = "selected-done"
    /\ UNCHANGED <<arg, walkVars, trackerVars, mergeVars>>

NextSelected == SelectedScanLine \/ SelectedEndOfFile

SpecSelected == InitSelected /\ [][NextSelected]_vars

(***************************************************************************)
(* The monorepo path: internal/config                                      *)
(***************************************************************************)

\* A config file .audit-cli.yaml as the loader meets it: not there, there but
\* unreadable, not valid YAML, or valid with a monorepo_path that may be
\* empty.
NoConfigFile == [exists |-> FALSE]

UnreadableConfigFile == [exists |-> TRUE, reads |-> FALSE]

MalformedConfigFile == [exists |-> TRUE, reads |-> TRUE, parses |-> FALSE]

ConfigFile(monorepoPath) ==
    [exists |-> TRUE, reads |-> TRUE, parses |-> TRUE, MonorepoPath |-> monorepoPath]

\* The errors the loader tells apart: none, os.ErrNotExist, any other.
NoError == "nil"

ErrNotExist == "os.ErrNotExist"

OtherError == "error"

parseConfigFile(file, monorepoPath) ==
    IF ~file.reads \/ ~file.parses
    THEN [err |-> OtherError, MonorepoPath |-> monorepoPath]
    ELSE [err |-> NoError, MonorepoPath |-> file.MonorepoPath]

\* The file in the current directory, else the one in the home directory,
\* which has to be known.
loadFromFile(env, monorepoPath) ==
    IF env.cwdFile.exists THEN parseConfigFile(env.cwdFile, monorepoPath)
    ELSE IF ~env.homeDirKnown THEN [err |-> OtherError, MonorepoPath |-> monorepoPath]
    ELSE IF env.homeFile.exists THEN parseConfigFile(env.homeFile, monorepoPath)
    ELSE [err |-> ErrNotExist, MonorepoPath |-> monorepoPath]

LoadConfig(env) ==
    LET loaded == loadFromFile(env, "")
    IN  IF loaded.err \notin {NoError, ErrNotExist}
        THEN [err |-> OtherError, MonorepoPath |-> ""]
        ELSE [err |-> NoError,
              MonorepoPath |-> IF env.envVar # "" THEN env.envVar ELSE loaded.MonorepoPath]

GetMonorepoPath(cmdLineArg, env) ==
    IF cmdLineArg # "" THEN [path |-> cmdLineArg, err |-> NoError]
    ELSE IF LoadConfig(env).err # NoError THEN [path |-> "", err |-> OtherError]
    ELSE IF LoadConfig(env).MonorepoPath # ""
    THEN [path |-> LoadConfig(env).MonorepoPath, err |-> NoError]
    ELSE [path |-> "", err |-> OtherError]

ConfigFiles(monorepoPath) ==
    {NoConfigFile, UnreadableConfigFile, MalformedConfigFile, ConfigFile(""),
     ConfigFile(monorepoPath)}

InitConfig ==
    /\ pc = "config"
    /\ arg \in [cmdLineArg : {"", "/from/arg"},
                env : [envVar : {"", "/from/env"},
                       cwdFile : ConfigFiles("/from/cwd"),
                       homeDirKnown : BOOLEAN,
                       homeFile : ConfigFiles("/from/home")]]
    /\ out = None
    /\ WalkIdle
    /\ TrackerIdle
    /\ MergeIdle

ResolveMonorepoPath ==
    /\ pc = "config"
    /\ out' = GetMonorepoPath(arg.cmdLineArg, arg.env)
    /\ pc' = "configured"
    /\ UNCHANGED <<arg, walkVars, trackerVars, mergeVars>>

SpecConfig == InitConfig /\ [][ResolveMonorepoPath]_vars

(***************************************************************************)
(* The rstspec.toml cache: FetchRstspec                                    *)
(***************************************************************************)

\* Hours; the cache is valid for 24 of them.
RstspecCacheTTL == 24

\* The cache file: not there, not valid JSON, or an RstspecCache with the
\* age of its timestamp in hours and the configuration it holds.
NoCache == [exists |-> FALSE]

UnparsableCache == [exists |-> TRUE, parses |-> FALSE]

RstspecCache(age, config) == [exists |-> TRUE, parses |-> TRUE, age |-> age, config |-> config]

\* cacheExpired under which every cache is expired.
cacheExpired_always(cache) == TRUE

\* Line 236: time.Since(cache.Timestamp) > RstspecCacheTTL.
cacheExpired(cache) == cache.age > RstspecCacheTTL

\* os.ReadFile and json.Unmarshal on the cache file give an RstspecCache.
readsCache(homeDirKnown, cache) == homeDirKnown /\ cache.exists /\ cache.parses

loadRstspecCache(homeDirKnown, cache) ==
    IF readsCache(homeDirKnown, cache) /\ ~cacheExpired(cache)
    THEN [err |-> FALSE, config |-> cache.config]
    ELSE [err |-> TRUE, config |-> None]

\* What http.Get and toml.Unmarshal can give: the configuration, or an error
\* (no connection, a status other than 200, a body that is not TOML).
Responses ==
    {[err |-> FALSE, config |-> "rstspec of the repository"],
     [err |-> TRUE, config |-> None]}

\* saveRstspecCache: the file holds the configuration with the time of now,
\* unless the directory or the file cannot be written.
saveRstspecCache(homeDirKnown, writable, cache, config) ==
    IF homeDirKnown /\ writable THEN RstspecCache(0, config) ELSE cache

\* Lines 331-344: the cache file as it is, expired or not, when the network
\* failed.
fallbackCache(homeDirKnown, cache) ==
    IF readsCache(homeDirKnown, cache)
    THEN [err |-> FALSE, config |-> cache.config]
    ELSE [err |-> TRUE, config |-> None]

MaxFetches == 2

CacheAges == {0, RstspecCacheTTL - 1, RstspecCacheTTL, RstspecCacheTTL + 1}

\* A call of FetchRstspec: the cache file it found when it began, the
\* requests it has made, and what it returned.
fetchCall(n, cache) ==
    [n |-> n, began |-> cache, requests |-> 0, response |-> None, err |-> FALSE,
     config |-> None]

\* arg is the machine (home directory, cache directory writable), out the
\* cache file and the call in progress.
InitFetch ==
    /\ pc = "fetch-load"
    /\ arg \in [homeDirKnown : BOOLEAN, writable : BOOLEAN]
    /\ \E cache \in {NoCache, UnparsableCache}
                    \cup {RstspecCache(age, "rstspec of the cache") : age \in CacheAges} :
          out = [cache |-> cache, call |-> fetchCall(1, cache)]
    /\ WalkIdle
    /\ TrackerIdle
    /\ MergeIdle

fetchFrame == <<arg, walkVars, trackerVars, mergeVars>>

\* Lines 321-325: a cache that loads is returned.
FetchLoadCache ==
    /\ pc = "fetch-load"
    /\ LET loaded == loadRstspecCache(arg.homeDirKnown, out.cache)
       IN  IF ~loaded.err
           THEN /\ out' = [out EXCEPT !.call.config = loaded.config]
                /\ pc' = "fetched"
           ELSE /\ pc' = "fetch-url"
                /\ UNCHANGED out
    /\ UNCHANGED fetchFrame

\* Line 328: the request.
FetchFromURL ==
    /\ pc = "fetch-url"
    /\ \E response \in Responses :
          out' = [out EXCEPT !.call.requests = @ + 1, !.call.response = response]
    /\ pc' = "fetch-got"
    /\ UNCHANGED fetchFrame

\* Lines 329-346: the request failed.
FetchFallback ==
    /\ pc = "fetch-got"
    /\ out.call.response.err
    /\ LET fallback == fallbackCache(arg.homeDirKnown, out.cache)
       IN  out' = [out EXCEPT !.call.err = fallback.err, !.call.config = fallback.config]
    /\ pc' = "fetched"
    /\ UNCHANGED fetchFrame

\* Lines 348-353: the request succeeded.
FetchSave ==
    /\ pc = "fetch-got"
    /\ ~out.call.response.err
    /\ out' = [out EXCEPT
                  !.cache = saveRstspecCache(arg.homeDirKnown, arg.writable, out.cache,
                                             out.call.response.config),
                  !.call.config = out.call.response.config]
    /\ pc' = "fetched"
    /\ UNCHANGED fetchFrame

\* FetchRstspec is called again, at once or after the cache has aged.
FetchAgain ==
    /\ pc = "fetched"
    /\ out.call.n < MaxFetches
    /\ \E hours \in {0, 1, RstspecCacheTTL + 1} :
          LET cache == IF out.cache.exists /\ out.cache.parses
                       THEN [out.cache EXCEPT !.age = IF @ + hours > RstspecCacheTTL
                                                      THEN RstspecCacheTTL + 1 ELSE @ + hours]
                       ELSE out.cache
          IN  out' = [cache |-> cache, call |-> fetchCall(out.call.n + 1, cache)]
    /\ pc' = "fetch-load"
    /\ UNCHANGED fetchFrame

NextFetch == FetchLoadCache \/ FetchFromURL \/ FetchFallback \/ FetchSave \/ FetchAgain

SpecFetch == InitFetch /\ [][NextFetch]_vars

(***************************************************************************)
(* Properties of the inclusion walker                                      *)
(***************************************************************************)

Done == pc = "done"

IncludesOf(f) == IF fs[f].ok THEN fs[f].incs ELSE <<>>

DirectivesOf(f) == IF fs[f].ok THEN fs[f].dirs ELSE <<>>

\* Includes a frame has still to follow, plus one for its return.
FrameRest(frame) == Len(IncludesOf(frame.filePath)) - frame.next + 2

\* A natural number that bounds the steps the walk can still take: the work
\* left in the frames of the stack, and for every file not visited yet the
\* most a call on it can add.
Measure ==
    (IF pc = "start" THEN 1 ELSE 0)
    + SumOver(DOMAIN stack, [k \in DOMAIN stack |-> FrameRest(stack[k])])
    + Cardinality(Files \ visited) * (MaxIncludes + 2)

\* C1: on every inclusion graph, cyclic or not, the top-level call returns:
\* each step of the walk lowers a measure that is never negative, a step is
\* possible as long as the call has not returned, and what it returns is a
\* list no longer than the directives read.
C1_Terminates ==
    /\ [][Measure' < Measure]_vars
    /\ [](Measure >= 0)
    /\ [](~Done => ENABLED NextWalk)
    /\ [](Done => Len(result.examples) <= DirectivesRead)

\* A walk over A including B including A, and A including itself, has
\* returned.
C1_Witness ==
    /\ Done
    /\ ~result.err
    /\ fs["/a.txt"].incs = <<"/b.rst", "/a.txt">>
    /\ fs["/b.rst"].ok
    /\ fs["/b.rst"].incs = <<"/a.txt">>
    /\ Len(result.examples) = 2

CountFrom(examples, f) ==
    Cardinality({i \in 1..Len(examples) : examples[i].SourceFile = f})

\* Examples collected so far by the calls in progress.
RECURSIVE Collected(_)
Collected(frames) ==
    IF frames = <<>> THEN <<>> ELSE Head(frames).examples \o Collected(Tail(frames))

\* C2: the visited set only grows, a file is never in two calls at once, and
\* the directives of a visited file contribute their examples exactly once,
\* however many inclusion paths lead to the file.
C2_VisitedOnce ==
    /\ [][visited \subseteq visited']_vars
    /\ [](\A j, k \in DOMAIN stack : stack[j].filePath = stack[k].filePath => j = k)
    /\ [](\A f \in Files : CountFrom(Collected(stack), f) <= Len(DirectivesOf(f)))
    /\ []((Done /\ ~result.err) =>
            \A f \in Files :
                CountFrom(result.examples, f) = IF f \in visited THEN Len(DirectivesOf(f)) ELSE 0)

\* C is included by A and by B, which A includes first; its one directive is
\* in the result once.
C2_Witness ==
    /\ Done
    /\ ~result.err
    /\ fs["/a.txt"].incs = <<"/b.rst", "/c.rst">>
    /\ fs["/b.rst"].ok
    /\ fs["/b.rst"].incs = <<"/c.rst">>
    /\ fs["/c.rst"].ok
    /\ Len(fs["/c.rst"].dirs) = 1
    /\ CountFrom(result.examples, "/c.rst") = 1

\* The depth-first order in which a walk from f reaches the files not in
\* seen: f, then for each include of f in marker order the files first
\* reached below it.
RECURSIVE Preorder(_, _)
RECURSIVE PreorderAll(_, _)
Preorder(f, seen) ==
    IF f \in seen THEN <<>>
    ELSE IF ~fs[f].ok THEN <<f>>
    ELSE <<f>> \o PreorderAll(fs[f].incs, seen \cup {f})

PreorderAll(targets, seen) ==
    IF targets = <<>> THEN <<>>
    ELSE LET first == Preorder(Head(targets), seen)
         IN  first \o PreorderAll(Tail(targets), seen \cup Range(first))

\* The directives of the files of an order, file by file, each named by its
\* file and its line.
RECURSIVE DirectivesInOrder(_)
DirectivesInOrder(order) ==
    IF order = <<>> THEN <<>>
    ELSE [i \in 1..Len(DirectivesOf(Head(order))) |->
            <<Head(order), DirectivesOf(Head(order))[i].Argument>>]
         \o DirectivesInOrder(Tail(order))

\* C3: the result lists a file's own examples first, in directive order, then
\* those of each include in marker order, the whole subtree of an include
\* before the next include.
C3_Order ==
    (Done /\ ~result.err) =>
        [i \in 1..Len(result.examples) |->
            <<result.examples[i].SourceFile, result.examples[i].Language>>]
        = DirectivesInOrder(Preorder(arg.filePath, {}))

\* A includes B and then C, and B includes D: the example of D, below B, comes
\* before the example of C.
C3_Witness ==
    /\ Done
    /\ ~result.err
    /\ fs["/a.txt"].incs = <<"/b.rst", "/c.rst">>
    /\ fs["/b.rst"].ok
    /\ fs["/b.rst"].incs = <<"/d.rst">>
    /\ fs["/c.rst"].ok
    /\ fs["/d.rst"].ok
    /\ Len(result.examples) = 2
    /\ result.examples[1].SourceFile = "/d.rst"
    /\ result.examples[2].SourceFile = "/c.rst"

\* The files a walk from the entry file gets to: the entry file, and the
\* includes of every readable file it gets to.
RECURSIVE ReachedFrom(_)
ReachedFrom(S) ==
    LET more == S \cup UNION {Range(IncludesOf(f)) : f \in S}
    IN  IF more = S THEN S ELSE ReachedFrom(more)

\* C4: an include that cannot be read does not fail the walk: the top-level
\* call on a readable entry file returns no error, and its result has an
\* example for every directive of every readable file reached.
C4_UnreadableSkipped ==
    (Done /\ fs[arg.filePath].ok) =>
        /\ ~result.err
        /\ \A f \in ReachedFrom({arg.filePath}) :
              \A i \in 1..Len(DirectivesOf(f)) :
                \E j \in 1..Len(result.examples) :
                    /\ result.examples[j].SourceFile = f
                    /\ result.examples[j].Language = DirectivesOf(f)[i].Argument

\* A includes B, which cannot be read, and then C; the result has the
\* example of A and the example of C.
C4_Witness ==
    /\ Done
    /\ ~result.err
    /\ Len(fs["/a.txt"].dirs) = 1
    /\ fs["/a.txt"].incs = <<"/b.rst", "/c.rst">>
    /\ fs["/b.rst"] = Unreadable
    /\ fs["/c.rst"].ok
    /\ Len(fs["/c.rst"].dirs) = 1
    /\ Len(result.examples) = 2

\* The context an include marker's selector stands for.
SelectorContexts(s) == {<<CodeContext(s, "", "")>>, <<CodeContext("", "", s)>>}

\* C5: the context a call was entered with is the selector entry its caller
\* has for it, if there is one; otherwise the context its caller was entered
\* with; the top-level call has none. The examples of a call entered with a
\* context are classified under that context alone.
C5_ContextPriority ==
    /\ (stack # <<>> => stack[1].parentContext = Nil)
    /\ \A k \in 2..Len(stack) :
          LET caller == stack[k - 1]
              callee == stack[k]
          IN  IF callee.filePath \in DOMAIN fs[caller.filePath].sel
              THEN callee.parentContext
                     \in SelectorContexts(fs[caller.filePath].sel[callee.filePath])
              ELSE callee.parentContext = caller.parentContext
    /\ \A k \in 1..Len(stack) :
          stack[k].parentContext # Nil =>
            \A i \in 1..Len(DirectivesOf(stack[k].filePath)) :
                stack[k].examples[i].Product =
                    determineProduct(stack[k].examples[i].Language, arg.contentDir,
                                     stack[k].parentContext, arg.mappings)

\* A includes B under the selector nodejs, B includes C with no selector, and
\* C is entered with the nodejs tab context: its python block is "Node.js".
C5_Witness ==
    /\ Len(stack) = 3
    /\ stack[2].parentContext = <<CodeContext("nodejs", "", "")>>
    /\ stack[3].filePath \notin DOMAIN fs[stack[2].filePath].sel
    /\ stack[3].parentContext = <<CodeContext("nodejs", "", "")>>
    /\ Len(stack[3].examples) = 1
    /\ stack[3].examples[1].Language = "python"
    /\ stack[3].examples[1].Product = "Node.js"

(***************************************************************************)
(* Properties of the language resolution                                   *)
(***************************************************************************)

FirstNonEmpty(a, b, c) ==
    IF a # "" THEN a ELSE IF b # "" THEN b ELSE IF c # "" THEN c ELSE "undefined"

\* The language the documented precedence gives a directive: its argument
\* where the argument is a language, then its :language: option, then the
\* extension of the file it names.
PrecedenceLanguage(d) ==
    IF d.Type \in {CodeBlock, YAMLCodeBlock}
    THEN FirstNonEmpty(d.Argument, d.Options.language, "")
    ELSE FirstNonEmpty("", d.Options.language, GetLanguageFromExtension(d.Argument))

\* C6: the language of the example emitted for a directive follows the
\* precedence argument, :language: option, file extension, "undefined" (up
\* to the spelling normalization); argument python with option javascript
\* gives python.
C6_LanguagePrecedence ==
    (pc = "processed" /\ arg.directive.Type # IoCodeBlock) =>
        /\ Len(out) = 1
        /\ Normalize(out[1].Language) = Normalize(PrecedenceLanguage(arg.directive))

(***************************************************************************)
(* Properties of the classifier                                            *)
(***************************************************************************)

Classified == pc = "classified"

\* The non-driver languages as the documentation lists them.
ListedNonDriver ==
    {"bash", "sh", "console", "text", "json", "yaml", "xml", "ini", "toml",
     "properties", "sql", "none", "http"}

\* The static language table read directly: the display name of a listed
\* language, the language string itself otherwise.
StaticProduct(language) ==
    IF \E k \in DOMAIN LanguageToProduct : k = ToLower(TrimSpace(language))
    THEN LanguageToProduct[ToLower(TrimSpace(language))]
    ELSE language

\* C7: a non-driver language is classified from the static language table
\* alone, whatever the contexts and the content directory are; json is always
\* "JSON".
C7_NonDriverBypass ==
    (Classified /\ ToLower(TrimSpace(arg.language)) \in ListedNonDriver)
        => /\ out.product = StaticProduct(arg.language)
           /\ (arg.language = "json" => out.product = "JSON")

\* A json block classified under a language=python selection, with a driver
\* content directory.
C7_Witness ==
    /\ Classified
    /\ arg.language = "json"
    /\ arg.contentDir = "pymongo-driver"
    /\ arg.contexts = <<CodeContext("", "", "python")>>
    /\ out.product = "JSON"

ShellProductContext ==
    \/ arg.contentDir = "mongodb-shell"
    \/ \E i \in 1..Len(arg.contexts) : arg.contexts[i].Interface = "mongosh"

\* The language is settled before the contexts are looked at: a non-driver
\* language, or a shell-ambiguous language decided by the shell rule.
SettledEarly ==
    /\ arg.language # ""
    /\ \/ ToLower(TrimSpace(arg.language)) \in ListedNonDriver
       \/ /\ ToLower(TrimSpace(arg.language)) \in {"shell", "javascript", "js"}
          /\ (ShellProductContext \/ ToLower(arg.language) = "shell")

TabHit(c) == c.TabID # "" /\ c.TabID \in DOMAIN arg.mappings.DriversTabIDToProduct
LanguageHit(c) == c.Language # "" /\ c.Language \in DOMAIN arg.mappings.ComposableLanguageToProduct
InterfaceHit(c) == c.Interface # "" /\ c.Interface \in DOMAIN arg.mappings.ComposableInterfaceToProduct
AnyHit(c) == TabHit(c) \/ LanguageHit(c) \/ InterfaceHit(c)

HitIndexes == {i \in 1..Len(arg.contexts) : AnyHit(arg.contexts[i])}

FirstHit == arg.contexts[CHOOSE i \in HitIndexes : \A j \in HitIndexes : i <= j]

NothingResolves ==
    /\ HitIndexes = {}
    /\ arg.contentDir \notin DOMAIN ContentDirToProduct
    /\ ToLower(TrimSpace(arg.language)) \notin DOMAIN LanguageToProduct

\* C9 as stated: when neither a context nor the content directory resolves a
\* product and the language table has no entry, the product is "Unknown".
C9_UnlistedIsUnknown == (Classified /\ NothingResolves) => out.product = "Unknown"

\* C9 as the code has it: in that case the product is the language string
\* itself, and "Unknown" only for the empty language.
C9_UnlistedIsLanguage ==
    (Classified /\ NothingResolves) =>
        out.product = IF arg.language = "" THEN "Unknown" ELSE arg.language

\* The sentinel language with nothing to resolve it.
C9_Witness ==
    /\ Classified
    /\ NothingResolves
    /\ arg.language = "undefined"
    /\ arg.contexts = <<>>
    /\ out.product = "undefined"

\* C10: a shell block outside a shell-product context is "Shell" and not
\* testable; inside one it is "MongoDB Shell" and testable.
C10_ShellAmbiguity ==
    (Classified /\ ToLower(arg.language) = "shell") =>
        IF ShellProductContext
        THEN out.product = "MongoDB Shell" /\ out.isTestable
        ELSE out.product = "Shell" /\ ~out.isTestable

\* A shell block under a mongosh interface context, outside the shell
\* product's content directory.
C10_Witness ==
    /\ Classified
    /\ arg.language = "shell"
    /\ arg.contentDir = "manual"
    /\ arg.contexts = <<CodeContext("nodejs", "", ""), CodeContext("", "mongosh", "")>>
    /\ out.product = "MongoDB Shell"
    /\ out.isTestable

(***************************************************************************)
(* Properties of the testability flags                                     *)
(***************************************************************************)

\* C11: the testable allow-list and the maybe-testable grey-list have no
\* product in common, and no classified example is both testable and maybe
\* testable.
C11_FlagsExclusive ==
    /\ TestableProducts \cap MaybeTestableProducts = {}
    /\ Classified => ~(out.isTestable /\ out.isMaybeTestable)

\* A shell block in the shell product's directory: testable, and not maybe
\* testable.
C11_Witness ==
    /\ Classified
    /\ arg.language = "shell"
    /\ arg.contentDir = "mongodb-shell"
    /\ out.product = "MongoDB Shell"
    /\ out.isTestable
    /\ ~out.isMaybeTestable

(***************************************************************************)
(* Properties of the context tracker                                       *)
(***************************************************************************)

Tracking == pc \in {"scan", "eof", "resolved"}

Contains(outer, inner) ==
    outer.startLine <= inner.startLine /\ inner.endLine <= outer.endLine

Disjoint(b1, b2) == b1.endLine < b2.startLine \/ b2.endLine < b1.startLine

\* C12: the intervals the tracker has produced nest: each is a non-empty
\* range of lines, and any two are disjoint or one contains the other.
C12_ValidNesting ==
    Tracking =>
        /\ \A i \in 1..Len(tracker.blocks) :
              /\ 1 <= tracker.blocks[i].startLine
              /\ tracker.blocks[i].startLine <= tracker.blocks[i].endLine
              /\ tracker.blocks[i].endLine <= tracker.lineNum
        /\ \A i, j \in 1..Len(tracker.blocks) :
              i # j => \/ Disjoint(tracker.blocks[i], tracker.blocks[j])
                       \/ Contains(tracker.blocks[i], tracker.blocks[j])
                       \/ Contains(tracker.blocks[j], tracker.blocks[i])

\* A file whose intervals are a block, a block inside it that ends earlier,
\* and a later block disjoint from both.
C12_Witness ==
    /\ pc = "eof"
    /\ \E i, j, k \in 1..Len(tracker.blocks) :
          /\ Contains(tracker.blocks[i], tracker.blocks[j])
          /\ tracker.blocks[i].startLine < tracker.blocks[j].startLine
          /\ Disjoint(tracker.blocks[i], tracker.blocks[k])
          /\ Disjoint(tracker.blocks[j], tracker.blocks[k])

Reverse(seq) == [i \in 1..Len(seq) |-> seq[Len(seq) + 1 - i]]

\* The open blocks whose marker is indented by at least d, outermost first.
RECURSIVE ReachedBy(_, _)
ReachedBy(openBlocks, d) ==
    IF openBlocks = <<>> THEN <<>>
    ELSE (IF Head(openBlocks).indent >= d THEN <<Head(openBlocks)>> ELSE <<>>)
         \o ReachedBy(Tail(openBlocks), d)

\* The open blocks whose marker is indented by less than d.
RECURSIVE NotReachedBy(_, _)
NotReachedBy(openBlocks, d) ==
    IF openBlocks = <<>> THEN <<>>
    ELSE (IF Head(openBlocks).indent < d THEN <<Head(openBlocks)>> ELSE <<>>)
         \o NotReachedBy(Tail(openBlocks), d)

ClosedAt(openBlocks, endLine) ==
    [i \in 1..Len(openBlocks) |->
        contextBlock(openBlocks[i].context, openBlocks[i].start, endLine)]

\* The step reads a line that is neither blank nor an option line.
ReadsClosingLine ==
    /\ pc = "scan"
    /\ pc' = "scan"
    /\ tracker'.lineNum = tracker.lineNum + 1
    /\ ~IsBlank(tracker'.line)
    /\ ~HasOptionPrefix(tracker'.line)

ReachesEndOfFile == pc = "scan" /\ pc' = "eof"

\* C13: a non-blank, non-option line at indentation d closes exactly the
\* open blocks opened at indentation d or more, innermost first, each ending
\* on the line before; the blocks opened at less than d stay open. At the end
\* of the file every open block is closed, ending on the last line.
C13_DedentCloses ==
    [][/\ ReadsClosingLine =>
            LET d == tracker'.line.indent
                kept == NotReachedBy(tracker.openBlocks, d)
            IN  /\ tracker'.blocks =
                      tracker.blocks
                      \o Reverse(ClosedAt(ReachedBy(tracker.openBlocks, d), tracker.lineNum))
                /\ tracker'.openBlocks \in {kept} \cup
                      {Append(kept, openBlock(EmptyContext, tracker'.lineNum, d))}
       /\ ReachesEndOfFile =>
            /\ Len(tracker'.blocks) = Len(tracker.blocks) + Len(tracker.openBlocks)
            /\ SubSeq(tracker'.blocks, 1, Len(tracker.blocks)) = tracker.blocks
            /\ Range(tracker'.blocks) =
                  Range(tracker.blocks)
                  \cup Range(ClosedAt(tracker.openBlocks, tracker.lineNum))
      ]_vars

\* Tab blocks opened at indentation 0 and 3, and a fifth line at indentation
\* 0 that has closed both, the inner one first, each ending at line 4.
C13_Witness ==
    /\ pc = "scan"
    /\ tracker.lineNum = 5
    /\ tracker.line = Line("text", 0, "")
    /\ tracker.openBlocks = <<>>
    /\ tracker.blocks = <<contextBlock(CodeContext("java", "", ""), 3, 4),
                          contextBlock(CodeContext("python", "", ""), 1, 4)>>

\* The open blocks after an option line under the rule that an option fills
\* the innermost open block only with that block's own selector key (:tabid:
\* for a block opened by a tab marker, :selections: for one opened by a
\* selected-content marker) and only while the selector is empty. opened
\* holds, for each open block, the kind of the marker that opened it.
OwnKeyFill(openBlocks, opened, line) ==
    LET n == Len(openBlocks)
    IN  IF n = 0 THEN openBlocks
        ELSE IF /\ line.kind = "tabid"
                /\ opened[n] = "tab"
                /\ openBlocks[n].context.TabID = ""
        THEN [openBlocks EXCEPT ![n].context.TabID = TrimSpace(line.value)]
        ELSE IF /\ line.kind = "selections"
                /\ opened[n] = "selected"
                /\ openBlocks[n].context.Language = ""
        THEN [openBlocks EXCEPT ![n].context.Language = TrimSpace(line.value)]
        ELSE openBlocks

ReadsOptionLine ==
    /\ pc = "scan"
    /\ pc' = "scan"
    /\ tracker'.lineNum = tracker.lineNum + 1
    /\ HasOptionPrefix(tracker'.line)

\* C14: an option line closes nothing, and fills the selector of an open
\* block only when it is that block's own selector key and the selector is
\* still empty; a selector once set is left unchanged by later option lines.
C14_SelectorFilledOnce ==
    [][ReadsOptionLine =>
          /\ tracker'.blocks = tracker.blocks
          /\ tracker'.openBlocks =
                OwnKeyFill(tracker.openBlocks, tracker.opened, tracker'.line)
      ]_vars

Resolved == pc = "resolved"

HasSelector(context) ==
    context.TabID # "" \/ context.Language # "" \/ context.Interface # ""

InBlock(lineNum, block) == block.startLine <= lineNum /\ lineNum <= block.endLine

\* The produced blocks that enclose the directive's line and have a selector.
EnclosingWithSelector ==
    {i \in 1..Len(tracker.blocks) :
        InBlock(tracker.directive, tracker.blocks[i]) /\ HasSelector(tracker.blocks[i].context)}

\* The narrowest of them: the one that starts last.
Innermost ==
    CHOOSE i \in EnclosingWithSelector :
        \A j \in EnclosingWithSelector :
            tracker.blocks[j].startLine <= tracker.blocks[i].startLine

\* C15: a directive inside nested blocks that have selectors gets the context
\* of the innermost of them, however the blocks were closed.
C15_InnermostWins ==
    (Resolved /\ out.parentContext = Nil /\ EnclosingWithSelector # {}) =>
        out.contexts = <<tracker.blocks[Innermost].context>>

\* The produced blocks whose interval holds the directive's line.
Enclosing ==
    {i \in 1..Len(tracker.blocks) : InBlock(tracker.directive, tracker.blocks[i])}

\* C16: in a file entered without inherited context, a directive inside a
\* block interval that has a selector is resolved to the context of such a
\* block, and a directive inside no block interval to the file-level
\* contexts.
C16_BlockOrFileContext ==
    (Resolved /\ out.parentContext = Nil) =>
        /\ EnclosingWithSelector # {} =>
              \E i \in EnclosingWithSelector : out.contexts = <<tracker.blocks[i].context>>
        /\ Enclosing = {} => out.contexts = tracker.contexts

\* A selected-content block with the selection go over lines 1 to 3 and the
\* directive at line 3 inside it: the resolved context has the language go,
\* not the file-level context.
C16_Witness ==
    /\ Resolved
    /\ out.parentContext = Nil
    /\ tracker.blocks = <<contextBlock(CodeContext("", "", "go"), 1, 3)>>
    /\ tracker.directive = 3
    /\ tracker.contexts = <<EmptyContext>>
    /\ out.contexts = <<CodeContext("", "", "go")>>

(***************************************************************************)
(* Properties of MergeProjectComposables                                   *)
(***************************************************************************)

Merging == pc = "merge"

\* Goroutine g has returned from a call.
Returned(g) == calls[g].pc = "idle" /\ calls[g].n > 0

\* Goroutine g has returned mappings other than the base object.
ReturnedMerged(g) == Returned(g) /\ calls[g].result # BaseRef

\* C17: whatever merge calls have run or are running, on whatever source
\* paths and manifests, the base mappings hold exactly the entries they held
\* before the first call.
C17_BaseUnchanged == Merging => heap[BaseRef] = arg.baseMappings

\* Both goroutines have made all their calls, one of them returned mappings
\* in which the project's "go" differs from the base's, and the base still
\* says "Golang".
C17_Witness ==
    /\ Merging
    /\ "go" \in DOMAIN arg.baseMappings.ComposableLanguageToProduct
    /\ \A g \in Goroutines : Returned(g) /\ calls[g].n = MaxCalls
    /\ \E g \in Goroutines :
          /\ ReturnedMerged(g)
          /\ heap[calls[g].result].ComposableLanguageToProduct["go"] = "Go"
    /\ "go" \in DOMAIN heap[BaseRef].ComposableLanguageToProduct
    /\ heap[BaseRef].ComposableLanguageToProduct["go"] = "Golang"

\* The configuration the project of goroutine g's last call declares: that of
\* its snooty.toml if one was found and parses, else an empty one.
ProjectConfig(g) ==
    IF calls[g].snootyPath # NoPath
       /\ Exists(calls[g].snootyPath, arg.manifests)
       /\ arg.manifests[calls[g].snootyPath].parses
    THEN arg.manifests[calls[g].snootyPath].config
    ELSE Config(<<>>)

\* The titles config declares for key in its composables named composableID.
DeclaredTitles(config, composableID, key) ==
    {config.Composables[i].Options[j].Title :
        <<i, j>> \in {<<i, j>> \in (DOMAIN config.Composables) \X (1..MaxOptions) :
                        /\ config.Composables[i].ID = composableID
                        /\ j \in DOMAIN config.Composables[i].Options
                        /\ config.Composables[i].Options[j].ID = key}}

\* Every entry of the base table is in the merged table, with the base's
\* title when the project declares no such key and a title of the project's
\* when it does.
BaseOrProject(baseTable, mergedTable, config, composableID) ==
    \A key \in DOMAIN baseTable :
        /\ key \in DOMAIN mergedTable
        /\ IF DeclaredTitles(config, composableID, key) = {}
           THEN mergedTable[key] = baseTable[key]
           ELSE mergedTable[key] \in DeclaredTitles(config, composableID, key)

\* C18: in the mappings a merge call returns, every base entry is present,
\* unless the project's manifest declares the same key in the same language
\* or interface table, and then the project's title is the one returned.
C18_ProjectWins ==
    Merging =>
        \A g \in Goroutines :
            Returned(g) =>
                LET returned == heap[calls[g].result]
                IN  /\ returned.DriversTabIDToProduct = arg.baseMappings.DriversTabIDToProduct
                    /\ BaseOrProject(arg.baseMappings.ComposableLanguageToProduct,
                                     returned.ComposableLanguageToProduct,
                                     ProjectConfig(g), "language")
                    /\ BaseOrProject(arg.baseMappings.ComposableInterfaceToProduct,
                                     returned.ComposableInterfaceToProduct,
                                     ProjectConfig(g), "interface")

\* The case of the claim: the base maps "go" to "Golang", the manifest of the
\* project to "Go", and the call returned "Go" next to the base's "python"
\* and "driver".
C18_Witness ==
    /\ Merging
    /\ "go" \in DOMAIN arg.baseMappings.ComposableLanguageToProduct
    /\ arg.baseMappings.ComposableLanguageToProduct["go"] = "Golang"
    /\ \E g \in Goroutines :
          /\ Returned(g)
          /\ calls[g].snootyPath = AtlasToml
          /\ DeclaredTitles(ProjectConfig(g), "language", "go") = {"Go"}
          /\ heap[calls[g].result].ComposableLanguageToProduct =
                ("go" :> "Go") @@ ("python" :> "Python") @@ ("nodejs" :> "Node.js")
          /\ heap[calls[g].result].ComposableInterfaceToProduct =
                ("driver" :> "Driver") @@ ("mongosh" :> "MongoDB Shell")

(***************************************************************************)
(* Properties of the snooty.toml cache                                     *)
(***************************************************************************)

\* Goroutine g is between RLock and RUnlock, or between Lock and Unlock.
HoldsRead(g) == calls[g].pc \in {"read", "runlock"}

HoldsWrite(g) == calls[g].pc \in {"write", "unlock"}

\* The step reads the map of the cache, or writes it.
ReadsCache(g) == calls[g].pc = "read" /\ calls'[g].pc = "runlock"

WritesCache(g) == calls[g].pc = "write" /\ calls'[g].pc = "unlock"

\* C19: the map of the cache is read only by a goroutine holding the read
\* lock and written only by one holding the write lock; readers may hold the
\* lock together, a writer holds it with no reader and no other writer.
C19_CacheLocked ==
    /\ [](Merging =>
            \A g \in Goroutines :
                /\ HoldsRead(g) =>
                      /\ g \in snootyCache.readers
                      /\ \A h \in Goroutines : ~HoldsWrite(h)
                /\ HoldsWrite(g) =>
                      /\ snootyCache.writer = g
                      /\ snootyCache.readers = {}
                      /\ \A h \in Goroutines \ {g} : ~HoldsRead(h) /\ ~HoldsWrite(h))
    /\ [][Merging =>
            /\ snootyCache.configs' # snootyCache.configs =>
                  \E g \in Goroutines : WritesCache(g) /\ HoldsWrite(g)
            /\ \A g \in Goroutines :
                  (calls'[g].found # calls[g].found /\ calls'[g].pc # "idle"
                        /\ calls'[g].pc # "rlock") =>
                      ReadsCache(g) /\ HoldsRead(g)]_vars

\* One goroutine is writing the cache while the other, which wants to read
\* it, is kept waiting at RLock.
C19_Witness ==
    /\ Merging
    /\ \E g, h \in Goroutines :
          /\ calls[g].pc = "write"
          /\ calls[h].pc = "rlock"
          /\ calls[h].snootyPath = calls[g].snootyPath

\* Two goroutines hold the read lock together.
ReadersOverlap == Merging /\ \A g \in Goroutines : calls[g].pc = "read"

(***************************************************************************)
(* Properties of a repeated analysis                                       *)
(***************************************************************************)

\* The first run returned FirstResult, and the second has returned too.
SecondRunDone == pc = "done" /\ out # <<>>

FirstResult == out[1]

RECURSIVE CodeEntries(_)
CodeEntries(items) ==
    IF items = <<>> THEN <<>>
    ELSE (IF Head(items).isMap /\ stringField(Head(items).code) # ""
          THEN <<Head(items)>> ELSE <<>>)
         \o CodeEntries(Tail(items))

RECURSIVE CodeEntriesOf(_)
CodeEntriesOf(documents) ==
    IF documents = <<>> THEN <<>>
    ELSE (IF Head(documents).kind = "step" /\ Head(documents).shape \in {"list", "map"}
          THEN CodeEntries(Head(documents).items) ELSE <<>>)
         \o CodeEntriesOf(Tail(documents))

YAMLParsed == pc = "yaml-done" /\ ~out.err /\ out.next > 0

\* C21: every code-example entry of a YAML steps file yields a Directive,
\* also when its language is missing: the parser returns as many directives
\* as the steps have action entries with code.
C21_NeverDropped ==
    YAMLParsed => Len(out.directives) = Len(CodeEntriesOf(arg.documents))

(***************************************************************************)
(* Properties of the inclusion-to-selector map                             *)
(***************************************************************************)

SelectedDone == pc = "selected-done"

\* C22: the map returned for a file has an entry for a target exactly when
\* an include line for the target lies directly inside a tab or
\* selected-content block with a non-empty selector, and the entry is the
\* selector of such a block; include lines outside every such block, or after
\* the block has ended, give no entry.
C22_EntryIffInsideBlock ==
    SelectedDone =>
        /\ \A target \in DOMAIN out :
              /\ target \in DOMAIN tracker.marked
              /\ out[target] \in tracker.marked[target]
        /\ \A target \in DOMAIN tracker.marked :
              tracker.marked[target] # {} => target \in DOMAIN out

(***************************************************************************)
(* Properties of the monorepo path                                         *)
(***************************************************************************)

Configured == pc = "configured"

\* The path the config file supplies: the file in the current directory if
\* there is one, else the one in the home directory.
FilePath ==
    IF arg.env.cwdFile.exists
    THEN IF arg.env.cwdFile.reads /\ arg.env.cwdFile.parses
         THEN arg.env.cwdFile.MonorepoPath ELSE ""
    ELSE IF arg.env.homeDirKnown /\ arg.env.homeFile.exists
            /\ arg.env.homeFile.reads /\ arg.env.homeFile.parses
    THEN arg.env.homeFile.MonorepoPath
    ELSE ""

\* C23: the command-line argument, if set, is returned without error; else
\* the environment variable, if set, whatever the state of the config file;
\* else the path of the config file; there is an error only when none of
\* the three supplies a path.
C23_PathPriority ==
    Configured =>
        IF arg.cmdLineArg # "" THEN out = [path |-> arg.cmdLineArg, err |-> NoError]
        ELSE IF arg.env.envVar # "" THEN out = [path |-> arg.env.envVar, err |-> NoError]
        ELSE IF FilePath # "" THEN out = [path |-> FilePath, err |-> NoError]
        ELSE out.err # NoError

(***************************************************************************)
(* Properties of the rstspec.toml cache                                    *)
(***************************************************************************)

Fetched == pc = "fetched"

\* The cache file the call found could be read and parsed.
CacheUsable == arg.homeDirKnown /\ out.call.began.exists /\ out.call.began.parses

CacheYoung == CacheUsable /\ out.call.began.age < RstspecCacheTTL

RequestFailed == out.call.requests > 0 /\ out.call.response.err

\* C24: a call that finds a cache younger than 24 hours makes no request and
\* returns it; a call whose request fails returns the data of the cache,
\* expired or not, if the cache file parses; a call returns an error only if
\* its request failed and there is no cache file that parses.
C24_CacheBeforeNetwork ==
    /\ (pc \in {"fetch-url", "fetch-got", "fetched"} /\ CacheYoung) => out.call.requests = 0
    /\ Fetched =>
          /\ out.call.requests <= 1
          /\ CacheYoung => ~out.call.err /\ out.call.config = out.call.began.config
          /\ (RequestFailed /\ CacheUsable) =>
                ~out.call.err /\ out.call.config = out.call.began.config
          /\ out.call.err <=> (RequestFailed /\ ~CacheUsable)

\* The second call found the cache the first one had saved a day before, its
\* request failed, and it returned the expired cache.
C24_Witness ==
    /\ Fetched
    /\ out.call.n = 2
    /\ out.call.began = RstspecCache(RstspecCacheTTL + 1, "rstspec of the repository")
    /\ RequestFailed
    /\ ~out.call.err
    /\ out.call.config = "rstspec of the repository"

\* A call on a cache of 23 hours has returned without a request.
YoungCacheReturned == Fetched /\ CacheYoung /\ out.call.began.age = RstspecCacheTTL - 1
                      /\ out.call.requests = 0

(***************************************************************************)
(* Properties of testability                                               *)
(***************************************************************************)

\* The example has a context that gives it a product: the content directory
\* of a product, a tab ID, language or interface selection the mappings
\* know, or the mongosh interface.
Contextualized ==
    \/ arg.contentDir \in DOMAIN ContentDirToProduct
    \/ HitIndexes # {}
    \/ ShellProductContext

\* C25: an example is flagged testable only if its product comes from such a
\* context; the language tag of the example alone never makes it testable.
C25_TestableNeedsContext == (Classified /\ out.isTestable) => Contextualized

(***************************************************************************)
(* Properties of system shell commands                                     *)
(***************************************************************************)

Processed == pc = "processed"

\* The directive names the system shell: by its :language: option, else by
\* its language argument, else by the extension of the file it includes.
GivesSystemShell(d) ==
    \/ d.Options.language \in {"sh", "bash"}
    \/ /\ d.Options.language = ""
       /\ \/ d.Type \in {CodeBlock, YAMLCodeBlock} /\ d.Argument \in {"sh", "bash"}
          \/ d.Type = LiteralInclude /\ Ext(d.Argument) \in {".sh", ".bash"}

\* C26: an example whose directive gives the language sh or bash, by
\* argument, by :language: option or by file extension, is never flagged
\* isTestable, whatever the directive type, the content directory and the
\* contexts.
C26_SystemShellNeverTestable ==
    (Processed /\ GivesSystemShell(arg.directive))
        => \A i \in 1..Len(out) : ~out[i].IsTestable

(***************************************************************************)
(* Properties of explicit languages inside tabs                            *)
(***************************************************************************)

\* The example names a driver language itself.
ExplicitDriverLanguage == arg.language \in {"python", "ruby"}

\* Some context carries a tab ID that maps to another product than the
\* example's own language does.
TabOfOtherProduct ==
    \E i \in 1..Len(arg.contexts) :
        /\ TabHit(arg.contexts[i])
        /\ arg.mappings.DriversTabIDToProduct[arg.contexts[i].TabID]
               # GetProductFromLanguage(arg.language)

\* C27: an explicit driver language on a code example takes precedence over
\* the tab context: classified with a tab ID that maps to a different
\* product, the example gets the product of its own language.
C27_ExplicitLanguageWins ==
    (Classified /\ ExplicitDriverLanguage /\ TabOfOtherProduct)
        => out.product = GetProductFromLanguage(arg.language)

(***************************************************************************)
(* Properties of the context handed to an inclusion target                 *)
(***************************************************************************)

\* The context of a selector as the walker builds it: a tab ID if the
\* drivers mapping knows the selector, a composable language otherwise.
SelectorContext(selector, mappings) ==
    IF selector \in DOMAIN mappings.DriversTabIDToProduct
    THEN <<CodeContext(selector, "", "")>>
    ELSE <<CodeContext("", "", selector)>>

\* The same target is included from two blocks with different selectors.
IncludedFromTwoBlocks ==
    \E target \in DOMAIN tracker.marked : Cardinality(tracker.marked[target]) > 1

\* C28: the context the walker hands to an inclusion target of a page, which
\* it descends into at the target's first include line, is the selector of
\* the block directly enclosing that include line, and the caller's context
\* when no block with a selector encloses it; this also holds for a target
\* included from two blocks with different selectors.
C28_ContextOfFirstMarker ==
    SelectedDone =>
        \A target \in DOMAIN tracker.first :
            includeContext(out, target, Nil, TestMappings)
                = IF tracker.first[target] = "" THEN Nil
                  ELSE SelectorContext(tracker.first[target], TestMappings)

(***************************************************************************)
(* Properties of concurrent merges on one manifest                         *)
(***************************************************************************)

\* What a call of goroutine g's last call returns when nothing runs beside
\* it: the base mappings if the project declares no composable, else the base
\* entries with the project's over them.
SequentialResult(g) ==
    IF Len(ProjectConfig(g).Composables) = 0
    THEN arg.baseMappings
    ELSE mergedMappings(arg.baseMappings, ProjectConfig(g))

\* The manifest at path is there and parses.
Parses(path) == Exists(path, arg.manifests) /\ arg.manifests[path].parses

\* C29: however the calls of the goroutines interleave, also two first calls
\* racing on an empty cache, every call returns the mappings a sequential run
\* returns; the cache holds for a path nothing but the parse of its manifest,
\* and it holds that once a call on the path has returned.
C29_RacingCallsAgree ==
    Merging =>
        /\ \A g \in Goroutines :
              Returned(g) => heap[calls[g].result] = SequentialResult(g)
        /\ \A path \in DOMAIN snootyCache.configs :
              /\ Parses(path)
              /\ snootyCache.configs[path] = arg.manifests[path].config
        /\ \A g \in Goroutines :
              (Returned(g) /\ calls[g].snootyPath # NoPath /\ Parses(calls[g].snootyPath))
                  => calls[g].snootyPath \in DOMAIN snootyCache.configs

\* Two first calls raced on the empty cache of the test project: goroutine 1
\* has returned merged mappings from its first call while goroutine 2, which
\* did not find the manifest cached either, has just written its own parse
\* over the entry.
C29_Witness ==
    /\ Merging
    /\ calls[1].n = 1
    /\ ReturnedMerged(1)
    /\ calls[1].snootyPath = AtlasToml
    /\ calls[2].n = 1
    /\ calls[2].pc = "unlock"
    /\ ~calls[2].found
    /\ calls[2].snootyPath = AtlasToml
    /\ snootyCache.configs[AtlasToml] = AtlasConfig

(***************************************************************************)
(* Properties of the open-block stack                                      *)
(***************************************************************************)

\* The lines at which the blocks of a stack, and of a list of intervals, were
\* opened.
OpenStarts(openBlocks) == {openBlocks[i].start : i \in DOMAIN openBlocks}
EmittedStarts(blocks) == {blocks[i].startLine : i \in DOMAIN blocks}

\* A marker opens one block per line, so a block is known by its first line.
KnownStarts(t) == OpenStarts(t.openBlocks) \cup EmittedStarts(t.blocks)

StrictlyIndented(openBlocks) ==
    \A i, j \in DOMAIN openBlocks : i < j => openBlocks[i].indent < openBlocks[j].indent

\* While the file is read no block is both open and emitted and none is
\* emitted twice; after the end of the file no interval is there twice.
NoBlockTwice ==
    IF pc = "scan"
    THEN Len(tracker.openBlocks) + Len(tracker.blocks) = Cardinality(KnownStarts(tracker))
    ELSE Len(tracker.blocks) = Cardinality(EmittedStarts(tracker.blocks))

\* A line of the scan keeps every block known so far, open or emitted, and
\* the block of a marker line is on top of the stack; the end of the file
\* emits every block known.
NoBlockLost ==
    /\ (pc = "scan" /\ pc' = "scan") =>
          /\ KnownStarts(tracker) \subseteq KnownStarts(tracker')
          /\ tracker'.line.kind \in {"tab", "selected"} =>
                /\ tracker'.openBlocks # <<>>
                /\ tracker'.openBlocks[Len(tracker'.openBlocks)].start = tracker'.lineNum
    /\ (pc = "scan" /\ pc' = "eof") =>
          EmittedStarts(tracker'.blocks) = KnownStarts(tracker)

\* C30: during the scan the open blocks have strictly increasing opening
\* indentation from the bottom of the stack to its top, and every block a
\* tab or selected-content marker pushes is emitted as exactly one interval,
\* never lost and never twice, whose first line is not after its last.
C30_StackAndIntervals ==
    /\ [](/\ StrictlyIndented(tracker.openBlocks)
          /\ NoBlockTwice
          /\ \A i \in DOMAIN tracker.blocks :
                tracker.blocks[i].startLine <= tracker.blocks[i].endLine)
    /\ [][NoBlockLost]_vars

\* The file is at its end with three intervals: a line closed two nested
\* blocks at once, and a block opened after them was still open at the end.
C30_Witness ==
    /\ pc = "eof"
    /\ Len(tracker.blocks) = 3
    /\ tracker.blocks[1].endLine = tracker.blocks[2].endLine
    /\ tracker.blocks[1].startLine > tracker.blocks[2].startLine
    /\ tracker.blocks[3].endLine = tracker.lineNum
    /\ tracker.blocks[3].startLine > tracker.blocks[1].endLine
====
